---- MODULE Spec2Model ----
(***************************************************************************)
(* Verification model of the graphiti backend services:                    *)
(*   - graph-visualizer-rust: DeltaTracker (delta_tracker.rs), the cache   *)
(*     layers (cache.rs), the DuckDB view store (duckdb_store.rs) and the  *)
(*     server tasks and handlers of main.rs / websocket.rs.                *)
(* Every component has its own specification (SpecDelta, SpecCoalescer,    *)
(* SpecCache, SpecStore, SpecServer) over the shared variables; the        *)
(* variables of the other components stay at their initial value.          *)
(***************************************************************************)
EXTENDS Integers, Sequences, FiniteSets, TLC

VARIABLES
    \* ---- DeltaTracker (delta_tracker.rs:29-35)
    current_nodes,      \* HashMap<String, Node>
    current_edges,      \* HashMap<(String, String), Edge>
    sequence_counter,   \* u64
    delta_history,      \* VecDeque<GraphDelta>
    returned_seqs,      \* history: the sequence numbers compute_delta returned
    last_changes,       \* result of the last get_changes_since
    last_compute,       \* history: the last compute_delta call
    last_query,         \* history: the last get_changes_since call
    \* ---- RequestCoalescer (cache.rs:57-59) and its callers
    inflight,           \* DashMap<K, Arc<Mutex<Option<V>>>>: key -> mutex id
    mutex_val,          \* the Option<V> inside each allocated mutex
    cleanup_tasks,      \* spawned delayed-cleanup tasks (their keys)
    pc,                 \* each caller's position in get_or_compute
    ckey,               \* each caller's key
    cmutex,             \* each caller's local mutex handle
    cvalue,             \* the value a caller's compute produced
    cret,               \* the value a caller returned
    computes,           \* history: compute invocations so far, per key
    early,              \* history: caller invoked before any result for its key
    result_stored,      \* history: a result was stored for the key
    \* ---- EnhancedCache (cache.rs:211-217)
    bloom_bits,         \* NegativeCache.filter: the bits set
    access_counts,      \* AccessCounter.counts
    access_lru,         \* AccessCounter.lru: <<key, instant>>, most recent last
    kv,                 \* the remote KV store (Redis): key -> string
    kv_ttl,             \* the TTL each KV entry was written with
    clock,              \* Instant::now(), in seconds
    requested,          \* history: keys get_or_compute was called with
    last_call,          \* history: the last EnhancedCache::get_or_compute call
    \* ---- DuckDBStore (duckdb_store.rs:16-40)
    nodes,              \* the nodes table: id -> row
    edges,              \* the edges table: its rows, in insertion order
    update_queue,       \* UpdateQueue
    store_clock,        \* Utc::now(), in minutes
    last_op,            \* history: the last store operation and its result
    before,             \* history: tables and queue before the last drain
    store_ops,          \* history: number of queue_* and load_initial_data calls
    \* ---- the server (main.rs): AppState, tasks, one HTTP handler, one client
    started,            \* main has loaded the initial data
    arrow_cache,        \* AppState.arrow_cache: Option<ArrowCache>
    hpc,                \* the update handler's position
    hreq,               \* the request it serves
    hres,               \* what its process_updates call returned
    hupdate,            \* the GraphUpdate it got
    use_deltas,         \* the client's preference (handle_socket)
    delta_rx,           \* deltas broadcast and not yet received by the client
    update_rx,          \* updates broadcast and not yet received by the client
    ws_out,             \* messages written to the client's socket
    falkor,             \* the source graph (FalkorDB)
    last_node_count,    \* reconciler local
    last_edge_count,    \* reconciler local
    store_changes,      \* history: committed changes of the view store
    deltas_sent,        \* history: deltas sent on delta_tx
    requests,           \* history: number of update requests
    source_changes,     \* history: number of source graph changes
    stale_served,       \* history: a columnar GET was answered from cached
                        \*   bytes that differ from the store's export
    worker_ticks,       \* history: worker ticks that found work
    reloads,            \* history: reconciler reloads
    last_tick,          \* history: what the last reconciler tick saw and did
    last_get,           \* history: the last columnar GET and its response
    \* ---- two successive Arrow exports of the store
    last_export,        \* history: the ETags of two successive exports
    \* ---- SearchEngine (graphiti-search-rs)
    search_kv,          \* the remote KV store: cache key -> serialized result
    kv_origin,          \* history: the filters and limit of the request
                        \*   whose result each KV entry holds
    last_search,        \* history: the last search request and its outcome
    searches,           \* history: number of search requests
    \* ---- refresh_arrow_cache (main.rs:1758-1808)
    rpc,                \* the refresh handler's position
    rnodes,             \* the result of its get_nodes_as_arrow call
    rstore,             \* history: the tables when that call read them
    last_refresh,       \* history: the last refresh that completed
    refreshes,          \* history: number of refresh requests
    \* ---- cancellation of a RequestCoalescer caller
    cancels,            \* history: number of callers dropped so far
    cancelled_at,       \* history: the last dropped caller, its key and the
                        \*   callers that waited on its entry
    \* ---- one broadcast channel and a lagging WebSocket subscriber
    bc_cap,             \* the number of values the channel retains
    bc_sent,            \* the number of values sent on update_tx
    bc_next,            \* the position of the subscriber's receiver
    bc_disabled,        \* the update arm of the pending select! is disabled
    bc_skipped,         \* history: values the receiver skipped as overwritten
    ws_types,           \* history: the types of the messages written to the socket
    ws_last,            \* history: the last update written to the socket
    \* ---- calls of pure functions of graphiti-search-rs
    last_rrf,           \* history: the last reciprocal_rank_fusion call
    last_parse,         \* history: the last parse_nodes_from_falkor_v2 call
    last_bfs,           \* history: the last calculate_shortest_paths call
    \* ---- FeedbackProcessor::process_feedback (graphiti-centrality-rs)
    fb_pc,              \* the position of the request
    fb_batch,           \* request.memory_scores: the memory ids
    fb_remaining,       \* the entries the for loop has not reached yet
    updated_nodes,      \* Vec<String>
    fb_succeeded,       \* history: the entries whose query updated a node
    fb_failed,          \* history: the entries whose query failed
    fb_pagerank,        \* history: the outcome of the PageRank query, if run
    fb_response,        \* the value process_feedback returned
    \* ---- the centrality write-back (graphiti-centrality-rs)
    cs_pc,              \* the position of the write-back
    cs_scores,          \* the score map of calculate_all_centralities
    cs_remaining,       \* the nodes store_centrality_scores has not reached yet
    cs_written,         \* history: the nodes whose SET query succeeded
    db_props,           \* the graph database: the properties of each node
    \* ---- an AccessCounter of its own (cache.rs)
    ac_capacity,        \* the capacity of the LRU, 0 before AccessCounter::new
    ac_counts,          \* counts: DashMap<String, u32>
    ac_lru,             \* lru: the (key, Instant) pairs, least recent first
    ac_clock,           \* Instant::now()
    ac_increments,      \* the number of increment calls so far
    ac_accessed,        \* history: the time of the last increment of each key
    ac_last,            \* history: the last operation on the counter
    \* ---- the Arrow cache with its clock (main.rs:1545-1720)
    col_cache,          \* arrow_cache: Option<ArrowCache>, with its timestamp
    col_store,          \* the version of the nodes and of the edges table
    col_now,            \* Instant::now(), in seconds
    col_produced,       \* history: when the cached bytes of each kind were made
    col_gets,           \* the number of columnar GETs so far
    col_last            \* history: the last columnar GET and its response

trackerVars == <<current_nodes, current_edges, sequence_counter, delta_history,
                 returned_seqs, last_changes, last_compute, last_query>>

coalescerVars == <<inflight, mutex_val, cleanup_tasks, pc, ckey, cmutex, cvalue,
                   cret, computes, early, result_stored>>

cacheVars == <<bloom_bits, access_counts, access_lru, kv, kv_ttl, clock,
               requested, last_call>>

storeVars == <<nodes, edges, update_queue, store_clock, last_op, before,
               store_ops>>

serverVars == <<started, arrow_cache, hpc, hreq, hres, hupdate, use_deltas,
                delta_rx, update_rx, ws_out, falkor, last_node_count,
                last_edge_count, store_changes, deltas_sent, requests,
                source_changes, stale_served, worker_ticks, reloads,
                last_tick, last_get>>

exportVars == <<last_export>>

searchVars == <<search_kv, kv_origin, last_search, searches>>

refreshVars == <<rpc, rnodes, rstore, last_refresh, refreshes>>

cancelVars == <<cancels, cancelled_at>>

lagVars == <<bc_cap, bc_sent, bc_next, bc_disabled, bc_skipped, ws_types, ws_last>>

callVars == <<last_rrf, last_parse, last_bfs>>

feedbackVars == <<fb_pc, fb_batch, fb_remaining, updated_nodes, fb_succeeded,
                  fb_failed, fb_pagerank, fb_response>>

centralityVars == <<cs_pc, cs_scores, cs_remaining, cs_written, db_props>>

\* the variables of the components modelled after the search engine
accessVars == <<ac_capacity, ac_counts, ac_lru, ac_clock, ac_increments,
                ac_accessed, ac_last>>

columnarVars == <<col_cache, col_store, col_now, col_produced, col_gets, col_last>>

restVars == <<refreshVars, cancelVars, lagVars, callVars, feedbackVars,
             centralityVars, accessVars, columnarVars>>

\* what the refresh handler leaves unchanged of them
notRefresh == <<accessVars, columnarVars, cancelVars, lagVars, callVars, feedbackVars, centralityVars>>

\* what the coalescer's cancellation leaves unchanged of them
notCancel == <<accessVars, columnarVars, refreshVars, lagVars, callVars, feedbackVars, centralityVars>>

\* what the lagging subscriber leaves unchanged of them
notLag == <<accessVars, columnarVars, refreshVars, cancelVars, callVars, feedbackVars, centralityVars>>

\* what a call of a pure function leaves unchanged
notCalls == <<trackerVars, coalescerVars, cacheVars, storeVars, serverVars,
              exportVars, searchVars, refreshVars, cancelVars, lagVars,
              feedbackVars, centralityVars, accessVars, columnarVars>>

\* what process_feedback leaves unchanged
notFeedback == <<trackerVars, coalescerVars, cacheVars, storeVars, serverVars,
                 exportVars, searchVars, refreshVars, cancelVars, lagVars,
                 callVars, centralityVars, accessVars, columnarVars>>

\* what the centrality write-back leaves unchanged
notCentrality == <<trackerVars, coalescerVars, cacheVars, storeVars, serverVars,
                   exportVars, searchVars, refreshVars, cancelVars, lagVars,
                   callVars, feedbackVars, accessVars, columnarVars>>

\* what the AccessCounter leaves unchanged
notAccess == <<trackerVars, coalescerVars, cacheVars, storeVars, serverVars,
               exportVars, searchVars, refreshVars, cancelVars, lagVars,
               callVars, feedbackVars, centralityVars, columnarVars>>

\* what the columnar GETs with their clock leave unchanged
notColumnar == <<trackerVars, coalescerVars, cacheVars, storeVars, serverVars,
                 exportVars, searchVars, refreshVars, cancelVars, lagVars,
                 callVars, feedbackVars, centralityVars, accessVars>>

vars == <<trackerVars, coalescerVars, cacheVars, storeVars, serverVars, exportVars,
          searchVars, restVars>>

\* what the actions of one component leave unchanged
notTracker == <<coalescerVars, cacheVars, storeVars, serverVars, exportVars,
                searchVars, restVars>>

notCoalescer == <<trackerVars, cacheVars, storeVars, serverVars, exportVars,
                  searchVars, restVars>>

notCache == <<trackerVars, storeVars, serverVars, exportVars, searchVars, restVars>>

notStore == <<trackerVars, coalescerVars, cacheVars, serverVars, exportVars,
              searchVars, restVars>>

None == "none"

\* Option<T>: None is <<>>, Some(v) is <<v>>
NoneV == <<>>

Some(v) == <<v>>

(***************************************************************************)
(* Generic helpers                                                         *)
(***************************************************************************)
Range(s) == {s[i] : i \in 1..Len(s)}

SeqsUpTo(S, n) == UNION {[1..k -> S] : k \in 0..n}

Max(S) == CHOOSE x \in S : \A y \in S : y <= x

Min(S) == CHOOSE x \in S : \A y \in S : x <= y

Abs(x) == IF x < 0 THEN -x ELSE x

(***************************************************************************)
(* RequestCoalescer (cache.rs:56-112).  The tokio runtime is multi-         *)
(* threaded, so callers interleave between any two accesses to the shared  *)
(* map and mutexes; a mutex is never held across a suspension point, so    *)
(* lock + access + unlock is one step.                                     *)
(***************************************************************************)
\* bound: the number of concurrent callers
NumCallers == 3

Callers == 1..NumCallers

Keys == {"k1", "k2"}

CoalescerInit ==
    /\ inflight = [k \in Keys |-> NoneV]
    /\ mutex_val = <<>>
    /\ cleanup_tasks = <<>>
    /\ pc = [c \in Callers |-> "idle"]
    /\ ckey = [c \in Callers |-> None]
    /\ cmutex = [c \in Callers |-> 0]
    /\ cvalue = [c \in Callers |-> NoneV]
    /\ cret = [c \in Callers |-> NoneV]
    /\ computes = [k \in Keys |-> 0]
    /\ early = [c \in Callers |-> FALSE]
    /\ result_stored = [k \in Keys |-> FALSE]

\* a caller enters get_or_compute(key, compute)
Call(c, k) ==
    /\ pc[c] = "idle"
    /\ pc' = [pc EXCEPT ![c] = "check"]
    /\ ckey' = [ckey EXCEPT ![c] = k]
    /\ early' = [early EXCEPT ![c] = ~result_stored[k]]
    /\ UNCHANGED <<inflight, mutex_val, cleanup_tasks, cmutex, cvalue, cret,
                   computes, result_stored>>
    /\ UNCHANGED notCoalescer

\* if let Some(entry) = self.inflight.get(&key)   (cache.rs:77-79)
CheckInflight(c) ==
    /\ pc[c] = "check"
    /\ IF inflight[ckey[c]] # NoneV
       THEN /\ cmutex' = [cmutex EXCEPT ![c] = inflight[ckey[c]][1]]
            /\ pc' = [pc EXCEPT ![c] = "lock"]
       ELSE /\ pc' = [pc EXCEPT ![c] = "insert"]
            /\ UNCHANGED cmutex
    /\ UNCHANGED <<inflight, mutex_val, cleanup_tasks, ckey, cvalue, cret,
                   computes, early, result_stored>>
    /\ UNCHANGED notCoalescer

\* let guard = mutex.lock().await; if let Some(value) = guard.as_ref() {
\* return value.clone() }; otherwise fall through   (cache.rs:82-87)
LockAndRead(c) ==
    /\ pc[c] = "lock"
    /\ IF mutex_val[cmutex[c]] # NoneV
       THEN /\ cret' = [cret EXCEPT ![c] = mutex_val[cmutex[c]]]
            /\ pc' = [pc EXCEPT ![c] = "done"]
       ELSE /\ pc' = [pc EXCEPT ![c] = "insert"]
            /\ UNCHANGED cret
    /\ UNCHANGED <<inflight, mutex_val, cleanup_tasks, ckey, cmutex, cvalue,
                   computes, early, result_stored>>
    /\ UNCHANGED notCoalescer

\* let mutex = Arc::new(Mutex::new(None)); self.inflight.insert(key, mutex)
\* (cache.rs:90-91)
InsertInflight(c) ==
    /\ pc[c] = "insert"
    /\ mutex_val' = Append(mutex_val, NoneV)
    /\ inflight' = [inflight EXCEPT ![ckey[c]] = Some(Len(mutex_val) + 1)]
    /\ cmutex' = [cmutex EXCEPT ![c] = Len(mutex_val) + 1]
    /\ pc' = [pc EXCEPT ![c] = "compute"]
    /\ UNCHANGED <<cleanup_tasks, ckey, cvalue, cret, computes, early,
                   result_stored>>
    /\ UNCHANGED notCoalescer

\* let value = compute().await: the invocation; the n-th invocation for a
\* key yields the value n   (cache.rs:94)
Compute(c) ==
    /\ pc[c] = "compute"
    /\ computes' = [computes EXCEPT ![ckey[c]] = @ + 1]
    /\ cvalue' = [cvalue EXCEPT ![c] = Some(computes[ckey[c]] + 1)]
    /\ pc' = [pc EXCEPT ![c] = "computing"]
    /\ UNCHANGED <<inflight, mutex_val, cleanup_tasks, ckey, cmutex, cret,
                   early, result_stored>>
    /\ UNCHANGED notCoalescer

\* *guard = Some(value.clone()); tokio::spawn(cleanup); value  (cache.rs:97-110)
StoreAndReturn(c) ==
    /\ pc[c] = "computing"
    /\ mutex_val' = [mutex_val EXCEPT ![cmutex[c]] = cvalue[c]]
    /\ cleanup_tasks' = Append(cleanup_tasks, ckey[c])
    /\ cret' = [cret EXCEPT ![c] = cvalue[c]]
    /\ result_stored' = [result_stored EXCEPT ![ckey[c]] = TRUE]
    /\ pc' = [pc EXCEPT ![c] = "done"]
    /\ UNCHANGED <<inflight, ckey, cmutex, cvalue, computes, early>>
    /\ UNCHANGED notCoalescer

RemoveAt(s, i) == SubSeq(s, 1, i - 1) \o SubSeq(s, i + 1, Len(s))

\* the spawned task: sleep(100ms); inflight.remove(&key_clone)  (cache.rs:105-108)
DelayedCleanup(i) ==
    /\ i \in 1..Len(cleanup_tasks)
    /\ inflight' = [inflight EXCEPT ![cleanup_tasks[i]] = NoneV]
    /\ cleanup_tasks' = RemoveAt(cleanup_tasks, i)
    /\ UNCHANGED <<mutex_val, pc, ckey, cmutex, cvalue, cret, computes, early,
                   result_stored>>
    /\ UNCHANGED notCoalescer

NextCoalescer ==
    \/ \E c \in Callers, k \in Keys : Call(c, k)
    \/ \E c \in Callers : CheckInflight(c)
    \/ \E c \in Callers : LockAndRead(c)
    \/ \E c \in Callers : InsertInflight(c)
    \/ \E c \in Callers : Compute(c)
    \/ \E c \in Callers : StoreAndReturn(c)
    \/ \E i \in 1..NumCallers : DelayedCleanup(i)

(***************************************************************************)
(* EnhancedCache and its layers (cache.rs:23-54, 114-319)                  *)
(***************************************************************************)
hot_threshold == 100

warm_threshold == 10

hot_ttl == 1800

warm_ttl == 300

cold_ttl == 60

\* the largest access count for which calculate_ttl is tabulated
MaxAccessCount == 102

calculate_ttl(access_count) ==
    IF access_count > hot_threshold THEN hot_ttl
    ELSE IF access_count > warm_threshold THEN warm_ttl
    ELSE cold_ttl

\* The Bloom filter: each key hashes to a set of bit positions; a key may
\* exist when all its bits are set (false positives are possible once other
\* keys have set the same bits).
BloomPositions(k) == IF k = "k1" THEN {0, 1} ELSE {1, 2}

might_exist(bits, k) == BloomPositions(k) \subseteq bits

mark_exists(bits, k) == bits \cup BloomPositions(k)

LruCapacity == 10000

\* lru.put(key, Instant::now()): the key becomes the most recent entry; the
\* least recent one is evicted when the capacity is exceeded
LruPut(lru, k, now) ==
    LET without == SelectSeq(lru, LAMBDA e : e[1] # k)
        put == Append(without, <<k, now>>)
    IN  IF Len(put) > LruCapacity THEN Tail(put) ELSE put

\* what the remote KV store may hold under a key: a JSON string of a value,
\* or a string that does not deserialize to T
KvStrings == {"v1", "v2", "garbage"}

\* serde_json::from_str::<T>(&cached)
ParsesAsT(str) == str \in {"v1", "v2"}

\* what the compute closure of a call returns: Ok(Some(v)), Ok(None), Err
ComputeOutcomes == {"some_v1", "some_v2", "ok_none", "err"}

OutcomeValue(outcome) == IF outcome = "some_v1" THEN "v1" ELSE "v2"

CacheInitEmpty ==
    /\ bloom_bits = {}
    /\ access_counts = [k \in Keys |-> 0]
    /\ access_lru = <<>>
    /\ kv = [k \in Keys |-> None]
    /\ kv_ttl = [k \in Keys |-> 0]
    /\ clock = 0
    /\ requested = {}
    /\ last_call = [key |-> None]

\* The process starts with an empty filter and empty counters
\* (EnhancedCache::new); the remote KV store outlives the process and may
\* hold entries written earlier.
CacheInit ==
    /\ bloom_bits = {}
    /\ access_counts = [k \in Keys |-> 0]
    /\ access_lru = <<>>
    /\ kv \in [Keys -> KvStrings \cup {None}]
    /\ kv_ttl = [k \in Keys |-> 0]
    /\ clock = 0
    /\ requested = {}
    /\ last_call = [key |-> None]

\* The body of EnhancedCache::get_or_compute for one caller running alone:
\* the record of everything the call changes and returns.
\*   result: Ok(None) is NoneV, Ok(Some(v)) is Some(v)
\*   is_err: the call returned Err.  The only `?` of the function parses, at
\*   line 303, a string that the closure produced with to_string from a T,
\*   so it succeeds; the Err arm of the match on compute() yields None.
EnhancedCall(k, outcome, redis_up) ==
    LET base == [bloom |-> bloom_bits, counts |-> access_counts, lru |-> access_lru,
                 kv |-> kv, kv_ttl |-> kv_ttl, inflight |-> inflight,
                 mutex_val |-> mutex_val, cleanup |-> cleanup_tasks,
                 compute_invoked |-> FALSE, ttl |-> 0, result |-> NoneV,
                 is_err |-> FALSE]
    IN  IF ~might_exist(bloom_bits, k)
        THEN base                                   \* return Ok(None)
        ELSE
          LET access_count == access_counts[k] + 1
              counted == [base EXCEPT !.counts[k] = access_count,
                                      !.lru = LruPut(access_lru, k, clock)]
              coalesced == /\ inflight[k] # NoneV
                           /\ mutex_val[inflight[k][1]] # NoneV
              redis_hit == redis_up /\ kv[k] # None /\ ParsesAsT(kv[k])
              m == Len(mutex_val) + 1
              \* the closure's value, an Option<String>
              value == IF redis_hit THEN Some(kv[k])
                       ELSE IF outcome \in {"some_v1", "some_v2"}
                            THEN Some(OutcomeValue(outcome))
                            ELSE NoneV
              stored == ~redis_hit /\ outcome \in {"some_v1", "some_v2"}
              ttl == calculate_ttl(access_count)
          IN  IF coalesced
              THEN [counted EXCEPT !.result = mutex_val[inflight[k][1]][1]]
              ELSE [counted EXCEPT
                      !.inflight[k] = Some(m),
                      !.mutex_val = Append(mutex_val, Some(value)),
                      !.cleanup = Append(cleanup_tasks, k),
                      !.compute_invoked = ~redis_hit,
                      !.bloom = IF stored THEN mark_exists(bloom_bits, k) ELSE @,
                      !.ttl = IF stored THEN ttl ELSE 0,
                      !.kv[k] = IF stored /\ redis_up THEN OutcomeValue(outcome) ELSE @,
                      !.kv_ttl[k] = IF stored /\ redis_up THEN ttl ELSE @,
                      !.result = value]

EnhancedGetOrCompute(k, outcome, redis_up) ==
    LET r == EnhancedCall(k, outcome, redis_up)
    IN  /\ bloom_bits' = r.bloom
        /\ access_counts' = r.counts
        /\ access_lru' = r.lru
        /\ kv' = r.kv
        /\ kv_ttl' = r.kv_ttl
        /\ inflight' = r.inflight
        /\ mutex_val' = r.mutex_val
        /\ cleanup_tasks' = r.cleanup
        /\ requested' = requested \cup {k}
        /\ last_call' = [key |-> k, outcome |-> outcome, fresh |-> k \notin requested,
                         kv_before |-> kv[k], compute_invoked |-> r.compute_invoked,
                         result |-> r.result, is_err |-> r.is_err,
                         bloom_before |-> bloom_bits, redis_up |-> redis_up,
                         ttl |-> r.ttl]
        /\ UNCHANGED <<clock, pc, ckey, cmutex, cvalue, cret, computes, early,
                       result_stored>>
        /\ UNCHANGED notCache

\* the remote store drops an entry whose TTL ran out
KvExpire(k) ==
    /\ kv[k] # None
    /\ kv' = [kv EXCEPT ![k] = None]
    /\ kv_ttl' = [kv_ttl EXCEPT ![k] = 0]
    /\ UNCHANGED <<bloom_bits, access_counts, access_lru, clock, requested,
                   last_call, coalescerVars>>
    /\ UNCHANGED notCache

NextCache ==
    \/ \E k \in Keys, o \in ComputeOutcomes, up \in BOOLEAN :
          EnhancedGetOrCompute(k, o, up)
    \/ \E k \in Keys : KvExpire(k)

(***************************************************************************)
(* DeltaTracker                                                            *)
(***************************************************************************)
\* bound: how many times compute_delta is called in one behaviour
MaxDeltas == 3

max_history_size == 100

\* Edge weights are counted in units of 1e-4; the tolerance 0.001 is 10 units.
WeightTol == 10

IGNORED_FIELDS == {"created_at", "degree_centrality", "pagerank_centrality",
                   "betweenness_centrality", "eigenvector_centrality"}

\* Node { id, label, node_type, summary, properties } (main.rs:105-112);
\* properties is a function from the keys present to their values.
MkNode(id, label, summary, props) ==
    [id |-> id, label |-> label, node_type |-> "Entity", summary |-> summary,
     properties |-> props]

PropName == [k \in {"name"} |-> 1]

PropNameDeg == [k \in {"name", "degree_centrality"} |-> IF k = "name" THEN 1 ELSE 5]

\* Edge { from, to, edge_type, weight } (main.rs:114-120)
MkEdge(from, to, ty, w) == [from |-> from, to |-> to, edge_type |-> ty, weight |-> w]

\* the node and edge vectors handed to compute_delta in SpecDelta
TrackerNodeInputs ==
    { <<>>,
      <<MkNode("a", "x", None, PropName)>>,
      <<MkNode("a", "y", None, PropName)>>,
      <<MkNode("a", "x", None, PropName), MkNode("b", "x", None, PropName)>> }

TrackerEdgeInputs ==
    { <<>>,
      <<MkEdge("a", "b", "t1", 10000)>>,
      <<MkEdge("a", "b", "t1", 10000), MkEdge("a", "b", "t2", 10000)>> }

\* a comparison that ignores no field
properties_equal_all(a, b) == a = b

properties_equal_meaningful(a, b) ==
    /\ \A key \in DOMAIN a :
          key \notin IGNORED_FIELDS => (key \in DOMAIN b /\ a[key] = b[key])
    /\ \A key \in DOMAIN b :
          key \notin IGNORED_FIELDS => key \in DOMAIN a

nodes_equal(a, b) ==
    /\ a.id = b.id
    /\ a.label = b.label
    /\ a.node_type = b.node_type
    /\ a.summary = b.summary
    /\ properties_equal_meaningful(a.properties, b.properties)

edges_equal(a, b) ==
    /\ a.from = b.from
    /\ a.to = b.to
    /\ a.edge_type = b.edge_type
    /\ Abs(a.weight - b.weight) < WeightTol

\* new_nodes.into_iter().map(|n| (n.id.clone(), n)).collect(): the last
\* element of the vector with a given id is the one the map keeps.
NodesToMap(vec) ==
    [id \in {vec[i].id : i \in 1..Len(vec)} |->
        vec[Max({i \in 1..Len(vec) : vec[i].id = id})]]

EdgesToMap(vec) ==
    [key \in {<<vec[i].from, vec[i].to>> : i \in 1..Len(vec)} |->
        vec[Max({i \in 1..Len(vec) : <<vec[i].from, vec[i].to>> = key})]]

\* a delta whose removed lists are taken from the new snapshot
DeltaOfSwapped(oldN, oldE, newN, newE, sequence) ==
    [operation     |-> IF sequence = 1 THEN "initial" ELSE "update",
     nodes_added   |-> {newN[id] : id \in DOMAIN newN \ DOMAIN oldN},
     nodes_updated |-> {newN[id] : id \in {i \in DOMAIN newN \cap DOMAIN oldN :
                                              ~nodes_equal(oldN[i], newN[i])}},
     nodes_removed |-> DOMAIN newN \ DOMAIN oldN,
     edges_added   |-> {newE[k] : k \in DOMAIN newE \ DOMAIN oldE},
     edges_updated |-> {newE[k] : k \in {i \in DOMAIN newE \cap DOMAIN oldE :
                                              ~edges_equal(oldE[i], newE[i])}},
     edges_removed |-> DOMAIN newE \ DOMAIN oldE,
     sequence      |-> sequence]

\* The delta compute_delta builds from the stored snapshot and the new one;
\* the change lists are kept as sets (HashMap iteration order is arbitrary).
DeltaOf(oldN, oldE, newN, newE, sequence) ==
    [operation     |-> IF sequence = 1 THEN "initial" ELSE "update",
     nodes_added   |-> {newN[id] : id \in DOMAIN newN \ DOMAIN oldN},
     nodes_updated |-> {newN[id] : id \in {i \in DOMAIN newN \cap DOMAIN oldN :
                                              ~nodes_equal(oldN[i], newN[i])}},
     nodes_removed |-> DOMAIN oldN \ DOMAIN newN,
     edges_added   |-> {newE[k] : k \in DOMAIN newE \ DOMAIN oldE},
     edges_updated |-> {newE[k] : k \in {i \in DOMAIN newE \cap DOMAIN oldE :
                                              ~edges_equal(oldE[i], newE[i])}},
     edges_removed |-> DOMAIN oldE \ DOMAIN newE,
     sequence      |-> sequence]

\* a history that drops the newest deltas when it is full
PushHistoryKeepOldest(history, delta) ==
    LET h == Append(history, delta)
    IN  IF Len(h) > max_history_size THEN SubSeq(h, 1, max_history_size) ELSE h

\* history.push_back(delta); while history.len() > max_history_size pop_front
PushHistory(history, delta) ==
    LET h == Append(history, delta)
    IN  IF Len(h) > max_history_size
        THEN SubSeq(h, Len(h) - max_history_size + 1, Len(h))
        ELSE h

compute_delta(new_nodes, new_edges) ==
    LET newN == NodesToMap(new_nodes)
        newE == EdgesToMap(new_edges)
        sequence == sequence_counter + 1
        delta == DeltaOf(current_nodes, current_edges, newN, newE, sequence)
    IN  /\ current_nodes' = newN
        /\ current_edges' = newE
        /\ sequence_counter' = sequence
        /\ delta_history' = PushHistory(delta_history, delta)
        /\ returned_seqs' = Append(returned_seqs, delta.sequence)
        /\ last_compute' = [called |-> TRUE, new_nodes |-> new_nodes,
                             new_edges |-> new_edges,
                             old_nodes |-> current_nodes,
                             old_edges |-> current_edges,
                             old_sequence |-> sequence_counter, delta |-> delta,
                             stored_nodes |-> newN, stored_edges |-> newE]
        /\ UNCHANGED <<last_changes, last_query>>

reset ==
    /\ current_nodes' = <<>>
    /\ current_edges' = <<>>
    /\ sequence_counter' = 0
    /\ delta_history' = <<>>
    /\ UNCHANGED <<returned_seqs, last_changes, last_compute, last_query>>

\* the fields of the tracker
TrackerState == <<current_nodes, current_edges, sequence_counter, delta_history>>

NoCompute == [called |-> FALSE]

NoQuery == [asked |-> FALSE]

\* a filter that keeps the delta of since_sequence too
FilterSinceInclusive(history, since_sequence) ==
    LET F[i \in 0..Len(history)] ==
            IF i = 0 THEN <<>>
            ELSE IF history[i].sequence >= since_sequence
                 THEN Append(F[i - 1], history[i])
                 ELSE F[i - 1]
    IN  F[Len(history)]

\* history.iter().filter(|d| d.sequence > since_sequence).take(limit)
FilterSince(history, since_sequence) ==
    LET F[i \in 0..Len(history)] ==
            IF i = 0 THEN <<>>
            ELSE IF history[i].sequence > since_sequence
                 THEN Append(F[i - 1], history[i])
                 ELSE F[i - 1]
    IN  F[Len(history)]

Take(s, n) == SubSeq(s, 1, IF Len(s) < n THEN Len(s) ELSE n)

get_changes_since(since_sequence, limit) ==
    /\ last_changes' = Take(FilterSince(delta_history, since_sequence), limit)
    /\ UNCHANGED <<current_nodes, current_edges, sequence_counter, delta_history,
                   returned_seqs, last_compute>>
    /\ last_query' = [asked |-> TRUE, since_sequence |-> since_sequence,
                       limit |-> limit, history |-> delta_history,
                       tracker_kept |-> (TrackerState' = TrackerState)]

TrackerInit ==
    /\ current_nodes = <<>>
    /\ current_edges = <<>>
    /\ sequence_counter = 0
    /\ delta_history = <<>>
    /\ returned_seqs = <<>>
    /\ last_changes = <<>>
    /\ last_compute = NoCompute
    /\ last_query = NoQuery

\* one call of compute_delta with vectors of the given sets
ComputeDeltaOf(NodeInputs, EdgeInputs) ==
    /\ Len(returned_seqs) < MaxDeltas
    /\ \E nv \in NodeInputs, ev \in EdgeInputs : compute_delta(nv, ev)
    /\ UNCHANGED notTracker

ComputeDelta == ComputeDeltaOf(TrackerNodeInputs, TrackerEdgeInputs)

\* the calls that build the history get_changes_since is asked about
ComputeDeltaNodes ==
    ComputeDeltaOf({<<>>, <<MkNode("a", "x", None, PropName)>>}, {<<>>})

\* node a in versions that differ in one field, or in one property
NodeVersions ==
    LET base == MkNode("a", "x", None, PropName)
    IN  {base,
         [base EXCEPT !.label = "y"],
         [base EXCEPT !.node_type = "Episodic"],
         [base EXCEPT !.summary = "s"],
         [base EXCEPT !.properties = PropNameDeg],
         [base EXCEPT !.properties = [PropNameDeg EXCEPT !["degree_centrality"] = 6]],
         [base EXCEPT !.properties = [k \in {"name", "created_at"} |-> 1]],
         [base EXCEPT !.properties = [PropName EXCEPT !["name"] = 2]],
         [base EXCEPT !.properties = [k \in {"name", "group"} |-> 1]],
         [base EXCEPT !.properties = <<>>]}

\* the calls that replace one version of node a by another
ComputeDeltaVersions == ComputeDeltaOf({<<v>> : v \in NodeVersions}, {<<>>})

\* the calls that fill the history beyond its size: the first MaxDeltas
\* calls with or without node a, the later ones with the empty graph
ComputeDeltaLong ==
    /\ Len(returned_seqs) < max_history_size + MaxDeltas - 1
    /\ \E nv \in (IF Len(returned_seqs) < MaxDeltas
                  THEN {<<>>, <<MkNode("a", "x", None, PropName)>>}
                  ELSE {<<>>}) :
          compute_delta(nv, <<>>)
    /\ UNCHANGED notTracker

Reset ==
    /\ reset
    /\ UNCHANGED notTracker

GetChangesSince ==
    /\ \E s \in 0..MaxDeltas, l \in 0..2 : get_changes_since(s, l)
    /\ UNCHANGED notTracker

NextDelta == ComputeDelta \/ Reset \/ GetChangesSince

\* compute_delta and reset alone
NextTracker == ComputeDelta \/ Reset

\* the history and its readers
NextHistory == ComputeDeltaNodes \/ Reset \/ GetChangesSince

\* the comparison of two versions of a node
NextVersions == ComputeDeltaVersions

\* the history being filled and trimmed
NextLong == ComputeDeltaLong


(***************************************************************************)
(* DuckDBStore (duckdb_store.rs): the nodes and edges tables, the update   *)
(* queue, load_initial_data and process_updates.                           *)
(***************************************************************************)
\* total number of queue_* and load_initial_data calls in a behaviour
MaxStoreOps == 2

\* the clock (minutes) stops advancing here
MaxClock == 6

\* minutes the clock advances in one step
ClockStep == 6

\* process_updates: let max_retries = 10
max_retries == 10

\* process_updates: chrono::Duration::minutes(5)
stale_threshold == 5

\* the largest position of a failing statement the environment picks
MaxFailAt == 5

NodeIds == {"a", "b", "c"}

\* String::cmp on the ids
IdRank == [i \in NodeIds |-> IF i = "a" THEN 1 ELSE IF i = "b" THEN 2 ELSE 3]

StoreNode(id, label) == MkNode(id, label, "s", PropName)

StoreEdge(from, to) == MkEdge(from, to, "relates_to", 10000)

\* Vec::sort_by(|a, b| a.id.cmp(&b.id)): a stable sort
InsertSorted(x, s) ==
    LET n == Cardinality({i \in 1..Len(s) : IdRank[s[i].id] <= IdRank[x.id]})
    IN  SubSeq(s, 1, n) \o <<x>> \o SubSeq(s, n + 1, Len(s))

RECURSIVE SortById(_)
SortById(s) ==
    IF s = <<>> THEN <<>>
    ELSE InsertSorted(s[Len(s)], SortById(SubSeq(s, 1, Len(s) - 1)))

\* a row of the nodes table (the columns that the model follows)
NodeRow(node, idx) == [idx |-> idx, label |-> node.label, summary |-> node.summary]

\* a row of the edges table
EdgeRow(edge, src_idx, tgt_idx) ==
    [source |-> edge.from, sourceidx |-> src_idx,
     target |-> edge.to, targetidx |-> tgt_idx,
     edge_type |-> edge.edge_type, weight |-> edge.weight]

\* INSERT OR REPLACE INTO nodes: id is the primary key
InsertOrReplaceNode(tbl, node, idx) ==
    [i \in DOMAIN tbl \cup {node.id} |->
        IF i = node.id THEN NodeRow(node, idx) ELSE tbl[i]]

\* a query whose result makes the new indices start at the largest idx
\* instead of after it
MaxIdxBelow(tbl) ==
    IF DOMAIN tbl = {} THEN -1 ELSE Max({tbl[i].idx : i \in DOMAIN tbl}) - 1

\* SELECT COALESCE(MAX(idx), -1) FROM nodes
MaxIdx(tbl) == IF DOMAIN tbl = {} THEN -1 ELSE Max({tbl[i].idx : i \in DOMAIN tbl})

\* SELECT idx FROM nodes WHERE id = ?  with .ok()
IdxOf(tbl, id) == IF id \in DOMAIN tbl THEN Some(tbl[id].idx) ELSE NoneV

EmptyQueue ==
    [nodes_to_add |-> <<>>, edges_to_add |-> <<>>, nodes_to_update |-> <<>>,
     pending_edges |-> <<>>, nodes_to_delete |-> <<>>, edges_to_delete |-> <<>>]

EmptyUpdate ==
    [nodes |-> NoneV, edges |-> NoneV, deleted_nodes |-> NoneV,
     deleted_edges |-> NoneV]

\* The state of one process_updates / load_initial_data call: the tables as
\* the open transaction sees them, the queue, the number of fallible
\* statements executed so far, and the locals of the function.
TxStart(tbl_nodes, tbl_edges, q) ==
    [nodes |-> tbl_nodes, edges |-> tbl_edges, q |-> q, k |-> 0,
     failed |-> FALSE, update |-> EmptyUpdate, validated |-> <<>>,
     still_pending |-> <<>>, deleted_nodes |-> <<>>, deleted_edges |-> <<>>]

\* One statement followed by `?`: the failAt-th such statement of the call
\* returns Err and the function returns at once; otherwise the statement
\* has its effect, which is the state `after`.
ExecStmt(st, failAt, after) ==
    IF st.failed THEN st
    ELSE IF st.k + 1 = failAt THEN [st EXCEPT !.k = @ + 1, !.failed = TRUE]
    ELSE [after EXCEPT !.k = st.k + 1]

\* ---- process_updates, "Process new nodes" (537-615)
RECURSIVE InsertNewNodes(_, _, _, _)
InsertNewNodes(st, new_nodes, start_idx, failAt) ==
    IF st.failed \/ new_nodes = <<>> THEN st
    ELSE InsertNewNodes(
            ExecStmt(st, failAt,
                     [st EXCEPT !.nodes =
                         InsertOrReplaceNode(st.nodes, Head(new_nodes), start_idx)]),
            Tail(new_nodes), start_idx + 1, failAt)

ProcessNewNodes(st, failAt) ==
    IF st.failed \/ st.q.nodes_to_add = <<>> THEN st
    ELSE LET s1 == ExecStmt(st, failAt, st)     \* the MAX(idx) query, with `?`
         IN  IF s1.failed THEN s1
             ELSE LET start_idx == Max({MaxIdx(s1.nodes) + 1, 0})
                      new_nodes == SortById(s1.q.nodes_to_add)
                      s2 == [s1 EXCEPT !.q.nodes_to_add = <<>>]   \* drain(..)
                      s3 == InsertNewNodes(s2, new_nodes, start_idx, failAt)
                  IN  IF s3.failed THEN s3
                      ELSE [s3 EXCEPT !.update.nodes = Some(new_nodes)]

\* ---- process_updates, "Process node updates" (618-634).  The HashMap is
\* drained in an unspecified order; the UPDATEs of distinct ids commute, so
\* the model walks the ids in their order.
IdSeq == <<"a", "b", "c">>

MapValues(m) ==
    LET F[i \in 0..Len(IdSeq)] ==
            IF i = 0 THEN <<>>
            ELSE IF IdSeq[i] \in DOMAIN m THEN Append(F[i - 1], m[IdSeq[i]])
            ELSE F[i - 1]
    IN  F[Len(IdSeq)]

RECURSIVE ApplyNodeUpdates(_, _, _)
ApplyNodeUpdates(st, updates, failAt) ==
    IF st.failed \/ updates = <<>> THEN st
    ELSE LET node == Head(updates)
             after == IF node.id \in DOMAIN st.nodes
                      THEN [st EXCEPT !.nodes[node.id].label = node.label,
                                      !.nodes[node.id].summary = node.summary]
                      ELSE st
         IN  ApplyNodeUpdates(ExecStmt(st, failAt, after), Tail(updates), failAt)

ProcessNodeUpdates(st, failAt) ==
    IF st.failed \/ DOMAIN st.q.nodes_to_update = {} THEN st
    ELSE LET updates == MapValues(st.q.nodes_to_update)
             s1 == [st EXCEPT !.q.nodes_to_update = <<>>]        \* drain()
             s2 == ApplyNodeUpdates(s1, updates, failAt)
         IN  IF s2.failed THEN s2
             ELSE IF s2.update.nodes = NoneV
                  THEN [s2 EXCEPT !.update.nodes = Some(updates)]
                  ELSE s2

\* ---- process_updates, "Process new edges with validation" (640-697).
\* The edges table has no key, so INSERT OR IGNORE always inserts a row.
RECURSIVE AddNewEdges(_, _, _, _)
AddNewEdges(st, new_edges, now, failAt) ==
    IF st.failed \/ new_edges = <<>> THEN st
    ELSE LET edge == Head(new_edges)
             source_idx == IdxOf(st.nodes, edge.from)
             target_idx == IdxOf(st.nodes, edge.to)
             next ==
                 IF source_idx # NoneV /\ target_idx # NoneV
                 THEN ExecStmt(st, failAt,
                        [st EXCEPT
                           !.edges = Append(@, EdgeRow(edge, source_idx[1], target_idx[1])),
                           !.validated = Append(@, edge)])
                 ELSE [st EXCEPT !.q.pending_edges =
                          Append(@, [edge |-> edge, retry_count |-> 0,
                                     first_seen |-> now])]
         IN  AddNewEdges(next, Tail(new_edges), now, failAt)

ProcessNewEdges(st, now, failAt) ==
    IF st.failed \/ st.q.edges_to_add = <<>> THEN st
    ELSE AddNewEdges([st EXCEPT !.q.edges_to_add = <<>>],         \* drain(..)
                     st.q.edges_to_add, now, failAt)

\* ---- process_updates, "Process pending edges" (700-777).  The loop runs
\* over pending_edges.drain(..): when a statement fails inside the loop the
\* Drain is dropped and the vector is left empty.
RECURSIVE RetryPending(_, _, _, _)
RetryPending(st, pend, now, failAt) ==
    IF st.failed \/ pend = <<>> THEN st
    ELSE LET pending == Head(pend)
             source_idx == IdxOf(st.nodes, pending.edge.from)
             target_idx == IdxOf(st.nodes, pending.edge.to)
             next ==
                 IF now - pending.first_seen > stale_threshold THEN st
                 ELSE IF pending.retry_count >= max_retries THEN st
                 ELSE IF source_idx # NoneV /\ target_idx # NoneV
                 THEN ExecStmt(st, failAt,
                        [st EXCEPT
                           !.edges = Append(@, EdgeRow(pending.edge, source_idx[1],
                                                       target_idx[1])),
                           !.validated = Append(@, pending.edge)])
                 ELSE [st EXCEPT !.still_pending =
                          Append(@, [pending EXCEPT !.retry_count = @ + 1])]
         IN  RetryPending(next, Tail(pend), now, failAt)

ProcessPendingEdges(st, now, failAt) ==
    IF st.failed \/ st.q.pending_edges = <<>> THEN st
    ELSE LET s1 == RetryPending([st EXCEPT !.q.pending_edges = <<>>],
                                st.q.pending_edges, now, failAt)
         IN  IF s1.failed THEN s1
             ELSE [s1 EXCEPT !.q.pending_edges = s1.still_pending]

\* ---- process_updates, 780-785
SetValidatedEdges(st) ==
    IF st.failed \/ st.validated = <<>> THEN st
    ELSE [st EXCEPT !.update.edges = Some(st.validated)]

\* ---- process_updates, node deletions (792-821)
KeepEdgesOfNode(tbl_edges, node_id) == tbl_edges

\* DELETE FROM edges WHERE source = ? OR target = ?
DeleteEdgesOfNode(tbl_edges, node_id) ==
    LET KeepRow(r) == r.source # node_id /\ r.target # node_id
    IN  SelectSeq(tbl_edges, KeepRow)

RECURSIVE DeleteNodes(_, _, _)
DeleteNodes(st, ids, failAt) ==
    IF st.failed \/ ids = <<>> THEN st
    ELSE LET node_id == Head(ids)
             s1 == ExecStmt(st, failAt,
                            [st EXCEPT !.edges = DeleteEdgesOfNode(st.edges, node_id)])
             s2 == ExecStmt(s1, failAt,
                     IF node_id \in DOMAIN s1.nodes
                     THEN [s1 EXCEPT
                             !.nodes = [i \in DOMAIN s1.nodes \ {node_id} |-> s1.nodes[i]],
                             !.deleted_nodes = Append(@, node_id)]
                     ELSE s1)
         IN  DeleteNodes(s2, Tail(ids), failAt)

ProcessNodeDeletions(st, failAt) ==
    IF st.failed \/ st.q.nodes_to_delete = <<>> THEN st
    ELSE LET s1 == DeleteNodes([st EXCEPT !.q.nodes_to_delete = <<>>],
                               st.q.nodes_to_delete, failAt)
         IN  IF s1.failed \/ s1.deleted_nodes = <<>> THEN s1
             ELSE [s1 EXCEPT !.update.deleted_nodes = Some(s1.deleted_nodes)]

\* ---- process_updates, edge deletions (824-845)
RECURSIVE DeleteEdges(_, _, _)
DeleteEdges(st, pairs, failAt) ==
    IF st.failed \/ pairs = <<>> THEN st
    ELSE LET pair == Head(pairs)
             KeepRow(r) == ~(r.source = pair[1] /\ r.target = pair[2])
             hit == \E i \in 1..Len(st.edges) : ~KeepRow(st.edges[i])
             s1 == ExecStmt(st, failAt,
                     IF hit
                     THEN [st EXCEPT !.edges = SelectSeq(st.edges, KeepRow),
                                     !.deleted_edges = Append(@, pair)]
                     ELSE st)
         IN  DeleteEdges(s1, Tail(pairs), failAt)

ProcessEdgeDeletions(st, failAt) ==
    IF st.failed \/ st.q.edges_to_delete = <<>> THEN st
    ELSE LET s1 == DeleteEdges([st EXCEPT !.q.edges_to_delete = <<>>],
                               st.q.edges_to_delete, failAt)
         IN  IF s1.failed \/ s1.deleted_edges = <<>> THEN s1
             ELSE [s1 EXCEPT !.update.deleted_edges = Some(s1.deleted_edges)]

\* What the tables hold once the call has returned: a Transaction that is
\* dropped without commit() rolls back.
TxTablesKeepPartial(st, nodes_before, edges_before) ==
    [nodes |-> st.nodes, edges |-> st.edges]

TxTables(st, nodes_before, edges_before) ==
    IF st.failed THEN [nodes |-> nodes_before, edges |-> edges_before]
    ELSE [nodes |-> st.nodes, edges |-> st.edges]

QueueIsEmpty(q) ==
    /\ q.nodes_to_add = <<>> /\ q.edges_to_add = <<>>
    /\ DOMAIN q.nodes_to_update = {} /\ q.pending_edges = <<>>
    /\ q.nodes_to_delete = <<>> /\ q.edges_to_delete = <<>>

\* DuckDBStore::process_updates (507-856) as a function of the tables, the
\* queue, the clock and the position of the failing statement (0: none).
\* result: "err", "none" (Ok(None)) or "some" (Ok(Some(update))).
process_updates(tbl_nodes, tbl_edges, q, now, failAt) ==
    IF QueueIsEmpty(q)
    THEN [result |-> "none", update |-> EmptyUpdate, nodes |-> tbl_nodes,
          edges |-> tbl_edges, q |-> q, wrote |-> FALSE]
    ELSE LET s0 == TxStart(tbl_nodes, tbl_edges, q)
             s1 == ExecStmt(s0, failAt, s0)              \* conn.transaction()?
             s2 == ProcessNewNodes(s1, failAt)
             s3 == ProcessNodeUpdates(s2, failAt)
             s4 == ProcessNewEdges(s3, now, failAt)
             s5 == ProcessPendingEdges(s4, now, failAt)
             s6 == SetValidatedEdges(s5)
             s7 == ProcessNodeDeletions(s6, failAt)
             s8 == ProcessEdgeDeletions(s7, failAt)
             s9 == ExecStmt(s8, failAt, s8)              \* tx.commit()?
             tables == TxTables(s9, tbl_nodes, tbl_edges)
         IN  [result |-> IF s9.failed THEN "err"
                         ELSE IF s9.update = EmptyUpdate THEN "none" ELSE "some",
              update |-> IF s9.failed THEN EmptyUpdate ELSE s9.update,
              nodes |-> tables.nodes, edges |-> tables.edges, q |-> s9.q,
              wrote |-> s9.nodes # tbl_nodes \/ s9.edges # tbl_edges]

\* ---- DuckDBStore::load_initial_data (159-300)
RECURSIVE LoadNodes(_, _, _, _)
LoadNodes(st, sorted_nodes, idx, failAt) ==
    IF st.failed \/ sorted_nodes = <<>> THEN st
    ELSE LET node == Head(sorted_nodes)
             s1 == IF node.id \in DOMAIN st.nodes
                   THEN \* plain INSERT of a duplicate primary key: Err
                        [st EXCEPT !.k = @ + 1, !.failed = TRUE]
                   ELSE ExecStmt(st, failAt,
                          [st EXCEPT !.nodes =
                              InsertOrReplaceNode(st.nodes, node, idx)])
         IN  LoadNodes(s1, Tail(sorted_nodes), idx + 1, failAt)

RECURSIVE LoadEdges(_, _, _)
LoadEdges(st, new_edges, failAt) ==
    IF st.failed \/ new_edges = <<>> THEN st
    ELSE LET edge == Head(new_edges)
             source_idx == IdxOf(st.nodes, edge.from)      \* node_to_idx.get
             target_idx == IdxOf(st.nodes, edge.to)
             s1 == IF source_idx # NoneV /\ target_idx # NoneV
                   THEN ExecStmt(st, failAt,
                          [st EXCEPT !.edges =
                              Append(@, EdgeRow(edge, source_idx[1], target_idx[1]))])
                   ELSE st
         IN  LoadEdges(s1, Tail(new_edges), failAt)

load_initial_data(tbl_nodes, tbl_edges, new_nodes, new_edges, failAt) ==
    LET s0 == TxStart(tbl_nodes, tbl_edges, EmptyQueue)
        s1 == ExecStmt(s0, failAt, s0)                       \* conn.transaction()?
        s2 == ExecStmt(s1, failAt, [s1 EXCEPT !.edges = <<>>])   \* DELETE FROM edges
        s3 == ExecStmt(s2, failAt, [s2 EXCEPT !.nodes = <<>>])   \* DELETE FROM nodes
        s4 == LoadNodes(s3, SortById(new_nodes), 0, failAt)
        s5 == LoadEdges(s4, new_edges, failAt)
        s6 == ExecStmt(s5, failAt, s5)                       \* tx.commit()?
        tables == TxTables(s6, tbl_nodes, tbl_edges)
    IN  [result |-> IF s6.failed THEN "err" ELSE "ok",
         nodes |-> tables.nodes, edges |-> tables.edges]

\* ---- the inputs of the store's operations
StoreNodeVecs ==
    { <<StoreNode("b", "L2"), StoreNode("a", "L2")>>, <<StoreNode("c", "L2")>> }

StoreEdgeVecs == { <<StoreEdge("a", "b")>> }

StoreNodeUpdates == { StoreNode("b", "L3") }

StoreNodeDeletionVecs == { <<"b">> }

StoreEdgeDeletionVecs == { << <<"a", "b">> >> }

LoadNodeVecs ==
    { <<StoreNode("c", "L1"), StoreNode("a", "L1"), StoreNode("b", "L1")>>,
      <<StoreNode("a", "L1"), StoreNode("a", "L2")>> }

LoadEdgeVecs ==
    { <<StoreEdge("a", "b"), StoreEdge("b", "c"), StoreEdge("a", "c")>> }

NoSnapshot == [nodes |-> <<>>, edges |-> <<>>, q |-> EmptyQueue, now |-> 0]

Snapshot == [nodes |-> nodes, edges |-> edges, q |-> update_queue, now |-> store_clock]

OtherOp(name) ==
    [op |-> name, result |-> "ok", update |-> EmptyUpdate, wrote |-> FALSE]

StoreInit ==
    /\ nodes = <<>>
    /\ edges = <<>>
    /\ update_queue = EmptyQueue
    /\ store_clock = 0
    /\ last_op = OtherOp("new")
    /\ before = NoSnapshot
    /\ store_ops = 0

QueueStep(name, q) ==
    /\ store_ops < MaxStoreOps
    /\ store_ops' = store_ops + 1
    /\ update_queue' = q
    /\ last_op' = OtherOp(name)
    /\ before' = NoSnapshot
    /\ UNCHANGED <<nodes, edges, store_clock>>
    /\ UNCHANGED notStore

QueueNodes ==
    \E v \in StoreNodeVecs :
        QueueStep("queue_nodes",
                  [update_queue EXCEPT !.nodes_to_add = @ \o v])

QueueEdges ==
    \E v \in StoreEdgeVecs :
        QueueStep("queue_edges",
                  [update_queue EXCEPT !.edges_to_add = @ \o v])

QueueNodeUpdate ==
    \E node \in StoreNodeUpdates :
        QueueStep("queue_node_update",
                  [update_queue EXCEPT !.nodes_to_update =
                      [i \in DOMAIN @ \cup {node.id} |->
                          IF i = node.id THEN node ELSE @[i]]])

QueueNodeDeletions ==
    \E v \in StoreNodeDeletionVecs :
        QueueStep("queue_node_deletions",
                  [update_queue EXCEPT !.nodes_to_delete = @ \o v])

QueueEdgeDeletions ==
    \E v \in StoreEdgeDeletionVecs :
        QueueStep("queue_edge_deletions",
                  [update_queue EXCEPT !.edges_to_delete = @ \o v])

\* One call of process_updates.  A call on an empty queue returns Ok(None)
\* at line 517 and changes nothing; the history keeps the last call that
\* went past that check.
ProcessUpdates ==
    /\ ~QueueIsEmpty(update_queue)
    /\ \E failAt \in 0..MaxFailAt :
        \E r \in {process_updates(nodes, edges, update_queue, store_clock, failAt)} :
            /\ nodes' = r.nodes
            /\ edges' = r.edges
            /\ update_queue' = r.q
            /\ last_op' = [op |-> "process_updates", result |-> r.result,
                           update |-> r.update, wrote |-> r.wrote]
    /\ before' = Snapshot
    /\ UNCHANGED <<store_clock, store_ops>>
    /\ UNCHANGED notStore

LoadInitialData ==
    /\ store_ops < MaxStoreOps
    /\ \E nv \in LoadNodeVecs, ev \in LoadEdgeVecs, failAt \in 0..MaxFailAt :
        LET r == load_initial_data(nodes, edges, nv, ev, failAt)
        IN  /\ nodes' = r.nodes
            /\ edges' = r.edges
            /\ last_op' = [OtherOp("load_initial_data") EXCEPT !.result = r.result]
    /\ store_ops' = store_ops + 1
    /\ before' = NoSnapshot
    /\ UNCHANGED <<update_queue, store_clock>>
    /\ UNCHANGED notStore

StoreTick ==
    /\ store_clock + ClockStep <= MaxClock
    /\ store_clock' = store_clock + ClockStep
    /\ UNCHANGED <<nodes, edges, update_queue, last_op, before, store_ops>>
    /\ UNCHANGED notStore

NextStore ==
    \/ QueueNodes
    \/ QueueEdges
    \/ QueueNodeUpdate
    \/ QueueNodeDeletions
    \/ QueueEdgeDeletions
    \/ ProcessUpdates
    \/ LoadInitialData
    \/ StoreTick


(***************************************************************************)
(* The Arrow export of the store (duckdb_store.rs:302-479,                 *)
(* arrow_converter.rs:10-23) and its ETag.                                 *)
(***************************************************************************)
\* the orders in which a query can return the rows numbered by S
Perms(S) ==
    {f \in [1..Cardinality(S) -> S] : \A x \in S : \E i \in DOMAIN f : f[i] = x}

\* SELECT ... FROM nodes ORDER BY idx: the ids in the order of their idx;
\* rows with equal idx come in any order
NodeOrders(tbl_nodes) ==
    {f \in Perms(DOMAIN tbl_nodes) :
        \A i \in DOMAIN f : \A j \in DOMAIN f :
            i < j => tbl_nodes[f[i]].idx <= tbl_nodes[f[j]].idx}

\* get_nodes_as_arrow: the record batches the call can return
get_nodes_as_arrow(tbl_nodes) ==
    {[i \in DOMAIN f |->
        [id |-> f[i], idx |-> tbl_nodes[f[i]].idx, label |-> tbl_nodes[f[i]].label,
         summary |-> tbl_nodes[f[i]].summary]] : f \in NodeOrders(tbl_nodes)}

\* the position of an id in the node array (node_id_to_index)
IndexIn(f, id) == (CHOOSE i \in DOMAIN f : f[i] = id) - 1

\* the rows of edges that the INNER JOINs with nodes keep
JoinedRows(tbl_nodes, tbl_edges) ==
    {i \in DOMAIN tbl_edges :
        tbl_edges[i].source \in DOMAIN tbl_nodes
            /\ tbl_edges[i].target \in DOMAIN tbl_nodes}

\* the row orders of SELECT ... FROM edges e INNER JOIN nodes n1 ... INNER
\* JOIN nodes n2 ...: the query has no ORDER BY, so every order of the
\* joined rows is a result the database can return
EdgeRowOrders(tbl_nodes, tbl_edges) == Perms(JoinedRows(tbl_nodes, tbl_edges))

\* get_edges_as_arrow: the record batches the call can return, with the
\* indices recalculated from the node order
get_edges_as_arrow(tbl_nodes, tbl_edges) ==
    {[k \in DOMAIN p |->
        [source |-> tbl_edges[p[k]].source,
         sourceidx |-> IndexIn(f, tbl_edges[p[k]].source),
         target |-> tbl_edges[p[k]].target,
         targetidx |-> IndexIn(f, tbl_edges[p[k]].target),
         edge_type |-> tbl_edges[p[k]].edge_type,
         weight |-> tbl_edges[p[k]].weight]] :
      f \in NodeOrders(tbl_nodes), p \in EdgeRowOrders(tbl_nodes, tbl_edges)}

\* ArrowConverter::record_batch_to_bytes: the IPC stream of the batch, a
\* function of the schema and of the rows in their order
record_batch_to_bytes(schema, batch) == <<"ARROW1", schema, batch>>

\* ArrowCache::generate_etag: W/"<base64 of the first 8 bytes of SHA-256>";
\* distinct streams are taken to have distinct digests
generate_etag(bytes) == <<"W/", bytes>>

NoExport == [kind |-> "none", first |-> NoneV, second |-> NoneV]

ExportInit == last_export = NoExport

\* two successive exports of the nodes or of the edges of an unchanged
\* store, each followed by generate_etag
ExportTwice ==
    /\ \E kind \in {"nodes", "edges"} :
        \E batches \in {IF kind = "nodes" THEN get_nodes_as_arrow(nodes)
                         ELSE get_edges_as_arrow(nodes, edges)} :
        \E b1 \in batches, b2 \in batches :
            last_export' =
                [kind |-> kind,
                 first |-> Some(generate_etag(record_batch_to_bytes(kind, b1))),
                 second |-> Some(generate_etag(record_batch_to_bytes(kind, b2)))]
    /\ UNCHANGED <<trackerVars, coalescerVars, cacheVars, storeVars, serverVars,
                   searchVars, restVars>>

\* the store's loads and drains, and the export
NextExport ==
    \/ QueueNodes
    \/ QueueEdges
    \/ QueueNodeDeletions
    \/ ProcessUpdates
    \/ LoadInitialData
    \/ ExportTwice

(***************************************************************************)
(* The server of main.rs: startup, the 100 ms drain worker, the 5 s        *)
(* reconciler, the HTTP update handlers, the columnar GET and one          *)
(* WebSocket client.                                                       *)
(***************************************************************************)
\* number of HTTP update requests in a behaviour
MaxRequests == 2

\* number of changes of the source graph (FalkorDB) in a behaviour
MaxSourceChanges == 1

\* number of reconciler reloads in a behaviour
MaxReloads == 1

\* number of worker ticks that find the queue non-empty in a behaviour
MaxWorkerTicks == 1

\* the largest position of a failing statement in the server's store calls
MaxServerFailAt == 1

\* the source graph at startup and after a change
SourceGraphs ==
    [g0 |-> [nodes |-> <<StoreNode("a", "L1")>>, edges |-> <<>>],
     g1 |-> [nodes |-> <<StoreNode("b", "L1"), StoreNode("a", "L1")>>,
             edges |-> <<StoreEdge("a", "b")>>]]

\* the bodies of the update requests
UpdateRequests ==
    { [kind |-> "add_nodes", nodes |-> <<StoreNode("b", "L2")>>, edges |-> <<>>],
      [kind |-> "add_edges", nodes |-> <<>>, edges |-> <<StoreEdge("a", "b")>>],
      [kind |-> "batch_update", nodes |-> <<StoreNode("b", "L2")>>,
       edges |-> <<StoreEdge("a", "b")>>],
      [kind |-> "webhook", nodes |-> <<StoreNode("c", "L2")>>,
       edges |-> <<StoreEdge("a", "c")>>] }

NoRequest == [kind |-> "none", nodes |-> <<>>, edges |-> <<>>]

\* what get_nodes_as_arrow / get_edges_as_arrow export and the cache holds
ArrowPayload(tbl_nodes, tbl_edges) == [nodes |-> tbl_nodes, edges |-> tbl_edges]

\* the record of a reconciler tick: seen counts the ticks so far (0, 1, or 2
\* for "more than one"), prev is the pair of last counts the tick started
\* with, polled the pair it read, poll_failed whether a count query failed,
\* triggered whether it entered the reload branch, reloaded whether the
\* reload succeeded
NoTick ==
    [seen |-> 0, prev |-> <<0, 0>>, polled |-> <<0, 0>>, poll_failed |-> FALSE,
     triggered |-> FALSE, reloaded |-> FALSE]

\* no columnar GET yet
NoGet ==
    [status |-> 0, etag |-> NoneV, body |-> NoneV, sent |-> NoneV,
     repeat |-> FALSE, store_at |-> <<>>]

\* AppState as main builds it (main.rs:217-284), before the initial load
AppStateInit ==
    /\ started = FALSE
    /\ arrow_cache = NoneV
    /\ hpc = "idle"
    /\ hreq = NoRequest
    /\ hres = "none"
    /\ hupdate = EmptyUpdate
    /\ use_deltas = FALSE
    /\ delta_rx = <<>>
    /\ update_rx = <<>>
    /\ ws_out = <<>>
    /\ falkor = "g0"
    /\ last_node_count = 0
    /\ last_edge_count = 0
    /\ store_changes = 0
    /\ deltas_sent = <<>>
    /\ requests = 0
    /\ source_changes = 0
    /\ stale_served = FALSE
    /\ worker_ticks = 0
    /\ reloads = 0
    /\ last_tick = NoTick
    /\ last_get = NoGet

storeHistory == <<store_clock, last_op, before, store_ops>>

serverFrame == <<coalescerVars, cacheVars, storeHistory, exportVars, searchVars, restVars>>

\* main.rs:286-441: load the initial data, initialise the delta tracker with
\* it and prerender the Arrow cache.
Startup ==
    /\ ~started
    /\ \E g \in {SourceGraphs[falkor]} :
       \E r \in {load_initial_data(nodes, edges, g.nodes, g.edges, 0)} :
           /\ nodes' = r.nodes
           /\ edges' = r.edges
           /\ compute_delta(g.nodes, g.edges)
           /\ arrow_cache' = Some(ArrowPayload(r.nodes, r.edges))
    /\ started' = TRUE
    /\ UNCHANGED <<update_queue, hpc, hreq, hres, hupdate, use_deltas, delta_rx,
                   update_rx, ws_out, falkor, last_node_count, last_edge_count,
                   store_changes, deltas_sent, requests, source_changes, stale_served,
                   worker_ticks, reloads,
                   last_tick, last_get>>
    /\ UNCHANGED serverFrame

\* the drain worker (main.rs:444-456): one tick.  A tick on an empty queue
\* gets Ok(None) and does nothing.
WorkerTick ==
    /\ started
    /\ ~QueueIsEmpty(update_queue)
    /\ worker_ticks < MaxWorkerTicks
    /\ worker_ticks' = worker_ticks + 1
    /\ \E failAt \in 0..MaxServerFailAt :
        \E r \in {process_updates(nodes, edges, update_queue, store_clock, failAt)} :
            /\ nodes' = r.nodes
            /\ edges' = r.edges
            /\ update_queue' = r.q
            /\ update_rx' = IF r.result = "some" THEN Append(update_rx, "update")
                            ELSE update_rx
            /\ store_changes' = IF r.nodes # nodes \/ r.edges # edges
                                THEN store_changes + 1 ELSE store_changes
    /\ UNCHANGED <<started, arrow_cache, hpc, hreq, hres, hupdate, use_deltas,
                   delta_rx, ws_out, falkor, last_node_count, last_edge_count,
                   deltas_sent, requests, source_changes, stale_served, reloads,
                   last_tick, last_get>>
    /\ UNCHANGED <<trackerVars, serverFrame>>

\* the source graph changes behind the server's back
SourceChange ==
    /\ source_changes < MaxSourceChanges
    /\ source_changes' = source_changes + 1
    /\ falkor' = IF falkor = "g0" THEN "g1" ELSE "g0"
    /\ UNCHANGED <<started, nodes, edges, update_queue, arrow_cache, hpc, hreq,
                   hres, hupdate, use_deltas, delta_rx, update_rx, ws_out,
                   last_node_count, last_edge_count, store_changes, deltas_sent,
                   requests, stale_served,
                   worker_ticks, reloads,
                   last_tick, last_get>>
    /\ UNCHANGED <<trackerVars, serverFrame>>

\* the reload of a reconciler tick (main.rs:507-545): fetch the graph, load
\* it, and on success wipe the caches and broadcast a full update.
Reload(g, fetch_ok, failAt) ==
    \E r \in {load_initial_data(nodes, edges, g.nodes, g.edges, failAt)} :
    \E reloaded \in {fetch_ok /\ r.result = "ok"} :
        /\ reloaded => reloads < MaxReloads
        /\ reloads' = IF reloaded THEN reloads + 1 ELSE reloads
        /\ nodes' = IF fetch_ok THEN r.nodes ELSE nodes
        /\ edges' = IF fetch_ok THEN r.edges ELSE edges
        /\ arrow_cache' = IF reloaded THEN NoneV ELSE arrow_cache
        /\ update_rx' = IF reloaded THEN Append(update_rx, "update") ELSE update_rx
        /\ store_changes' = IF reloaded /\ (r.nodes # nodes \/ r.edges # edges)
                            THEN store_changes + 1 ELSE store_changes

\* the reconciler (main.rs:467-552): one tick.  A count query that fails
\* yields 0; a reload happens only when last_node_count > 0 and a count
\* differs; the last counts are stored in every case.
ReconcilerTick ==
    /\ started
    /\ \E nodes_ok \in BOOLEAN, edges_ok \in BOOLEAN :
        LET g == SourceGraphs[falkor]
            current_node_count == IF nodes_ok THEN Len(g.nodes) ELSE 0
            current_edge_count == IF edges_ok THEN Len(g.edges) ELSE 0
            differs == /\ last_node_count > 0
                       /\ \/ current_node_count # last_node_count
                          \/ current_edge_count # last_edge_count
        IN  /\ IF differs
               THEN \E fetch_ok \in BOOLEAN, failAt \in 0..MaxServerFailAt :
                      Reload(g, fetch_ok, failAt)
               ELSE UNCHANGED <<nodes, edges, arrow_cache, update_rx,
                                store_changes, reloads>>
            /\ last_node_count' = current_node_count
            /\ last_edge_count' = current_edge_count
            /\ last_tick' =
                  [seen |-> IF last_tick.seen = 0 THEN 1 ELSE 2,
                   prev |-> <<last_node_count, last_edge_count>>,
                   polled |-> <<current_node_count, current_edge_count>>,
                   poll_failed |-> ~nodes_ok \/ ~edges_ok,
                   triggered |-> differs,
                   reloaded |-> reloads' # reloads]
    /\ UNCHANGED <<started, update_queue, hpc, hreq, hres, hupdate, use_deltas,
                   delta_rx, ws_out, falkor, deltas_sent, requests,
                   source_changes, stale_served, worker_ticks, last_get>>
    /\ UNCHANGED <<trackerVars, serverFrame>>

\* ---- add_nodes (1827-1872), add_edges (1874-1919), batch_update
\* (1921-1976), webhook_data_ingestion (2054-2128).  Every .await of a
\* handler is a point where the worker and the other tasks can run.
\* The first queue_* call of a request.
HandlerStart ==
    /\ started
    /\ hpc = "idle"
    /\ requests < MaxRequests
    /\ \E req \in UpdateRequests :
        /\ hreq' = req
        /\ update_queue' =
              IF req.kind = "add_edges"
              THEN [update_queue EXCEPT !.edges_to_add = @ \o req.edges]
              ELSE [update_queue EXCEPT !.nodes_to_add = @ \o req.nodes]
        /\ hpc' = IF req.kind \in {"batch_update", "webhook"} /\ req.edges # <<>>
                  THEN "queue_edges" ELSE "drain"
    /\ requests' = requests + 1
    /\ UNCHANGED <<started, nodes, edges, arrow_cache, hres, hupdate, use_deltas,
                   delta_rx, update_rx, ws_out, falkor, last_node_count,
                   last_edge_count, store_changes, deltas_sent, source_changes,
                   stale_served,
                   worker_ticks, reloads,
                   last_tick, last_get>>
    /\ UNCHANGED <<trackerVars, serverFrame>>

\* batch_update / webhook: queue_edges after queue_nodes
HandlerQueueEdges ==
    /\ hpc = "queue_edges"
    /\ update_queue' = [update_queue EXCEPT !.edges_to_add = @ \o hreq.edges]
    /\ hpc' = "drain"
    /\ UNCHANGED <<started, nodes, edges, arrow_cache, hreq, hres, hupdate,
                   use_deltas, delta_rx, update_rx, ws_out, falkor,
                   last_node_count, last_edge_count, store_changes, deltas_sent,
                   requests, source_changes, stale_served,
                   worker_ticks, reloads,
                   last_tick, last_get>>
    /\ UNCHANGED <<trackerVars, serverFrame>>

\* "Process updates immediately": state.duckdb_store.process_updates().await
HandlerDrain ==
    /\ hpc = "drain"
    /\ \E failAt \in 0..MaxServerFailAt :
        \E r \in {process_updates(nodes, edges, update_queue, store_clock, failAt)} :
            /\ nodes' = r.nodes
            /\ edges' = r.edges
            /\ update_queue' = r.q
            /\ hres' = r.result
            /\ hupdate' = r.update
            /\ store_changes' = IF r.nodes # nodes \/ r.edges # edges
                                THEN store_changes + 1 ELSE store_changes
    /\ hpc' = "respond"
    /\ UNCHANGED <<started, arrow_cache, hreq, use_deltas, delta_rx, update_rx,
                   ws_out, falkor, last_node_count, last_edge_count, deltas_sent,
                   requests, source_changes, stale_served,
                   worker_ticks, reloads,
                   last_tick, last_get>>
    /\ UNCHANGED <<trackerVars, serverFrame>>

\* The delta the webhook builds by hand (2082-2092): sequence: 0
WebhookDelta(update) ==
    [operation     |-> "update",
     nodes_added   |-> IF update.nodes = NoneV THEN {} ELSE Range(update.nodes[1]),
     nodes_updated |-> {},
     nodes_removed |-> {},
     edges_added   |-> IF update.edges = NoneV THEN {} ELSE Range(update.edges[1]),
     edges_updated |-> {},
     edges_removed |-> {},
     sequence      |-> 0]

\* the match on the result: on Ok(Some(update)) broadcast the update (the
\* webhook also sends its delta) and wipe the caches; otherwise only answer.
HandlerRespond ==
    /\ hpc = "respond"
    /\ IF hres = "some"
       THEN /\ update_rx' = Append(update_rx, "update")
            /\ IF hreq.kind = "webhook"
               THEN /\ delta_rx' = Append(delta_rx, WebhookDelta(hupdate))
                    /\ deltas_sent' = Append(deltas_sent, WebhookDelta(hupdate))
               ELSE UNCHANGED <<delta_rx, deltas_sent>>
            /\ arrow_cache' = NoneV
       ELSE UNCHANGED <<update_rx, delta_rx, deltas_sent, arrow_cache>>
    /\ hpc' = "idle"
    /\ hreq' = NoRequest
    /\ hres' = "none"
    /\ hupdate' = EmptyUpdate
    /\ UNCHANGED <<started, nodes, edges, update_queue, use_deltas, ws_out, falkor,
                   last_node_count, last_edge_count, store_changes, requests,
                   source_changes, stale_served,
                   worker_ticks, reloads,
                   last_tick, last_get>>
    /\ UNCHANGED <<trackerVars, serverFrame>>

\* ---- get_nodes_arrow (1547-1641), with cache_config.enabled and without
\* force_fresh.  The request carries no If-None-Match, or the ETag of the
\* last response, or the ETag the cache holds; expired says whether the
\* cache entry is older than ttl_seconds.
\* the response and what the history keeps of the request: repeat says that
\* the request carried the ETag of the previous response, which had a body,
\* that the store has not changed since, and that the TTL has not passed
GetResponse(status, etag, body, if_none_match, expired) ==
    [status |-> status, etag |-> Some(etag), body |-> body,
     sent |-> if_none_match,
     repeat |-> /\ last_get.status = 200
                /\ if_none_match = last_get.etag
                /\ last_get.store_at = nodes
                /\ ~expired,
     store_at |-> nodes]

GetNodesArrow ==
    /\ started
    /\ \E if_none_match \in
            {NoneV, last_get.etag}
              \cup (IF arrow_cache # NoneV
                    THEN {Some(generate_etag(arrow_cache[1].nodes))} ELSE {}),
          expired \in BOOLEAN :
        IF /\ arrow_cache # NoneV
           /\ if_none_match = Some(generate_etag(arrow_cache[1].nodes))
        THEN \* 304 Not Modified with the cached ETag and an empty body
             /\ last_get' = GetResponse(304, generate_etag(arrow_cache[1].nodes),
                                        NoneV, if_none_match, expired)
             /\ stale_served' = (stale_served \/
                    generate_etag(arrow_cache[1].nodes) # generate_etag(nodes))
             /\ UNCHANGED arrow_cache
        ELSE IF arrow_cache # NoneV /\ ~expired
        THEN \* 200 with X-Cache-Hit: true and the cached bytes
             /\ last_get' = GetResponse(200, generate_etag(arrow_cache[1].nodes),
                                        Some(arrow_cache[1].nodes), if_none_match,
                                        expired)
             /\ stale_served' = (stale_served \/ arrow_cache[1].nodes # nodes)
             /\ UNCHANGED arrow_cache
        ELSE \* 200 with a fresh export; the cache is updated only if present
             /\ last_get' = GetResponse(200, generate_etag(nodes), Some(nodes),
                                        if_none_match, expired)
             /\ arrow_cache' = IF arrow_cache # NoneV
                               THEN Some([arrow_cache[1] EXCEPT !.nodes = nodes])
                               ELSE NoneV
             /\ UNCHANGED stale_served
    /\ UNCHANGED <<started, nodes, edges, update_queue, hpc, hreq, hres, hupdate,
                   use_deltas, delta_rx, update_rx, ws_out, falkor,
                   last_node_count, last_edge_count, store_changes, deltas_sent,
                   requests, source_changes, worker_ticks, reloads,
                   last_tick>>
    /\ UNCHANGED <<trackerVars, serverFrame>>

\* ---- handle_socket (main.rs:737-873, websocket.rs:20-83): one client,
\* connected and subscribed to both broadcast channels since startup.
WsCommand ==
    /\ started
    /\ use_deltas' = ~use_deltas    \* "subscribe:deltas" / "unsubscribe:deltas"
    /\ UNCHANGED <<started, nodes, edges, update_queue, arrow_cache, hpc, hreq,
                   hres, hupdate, delta_rx, update_rx, ws_out, falkor,
                   last_node_count, last_edge_count, store_changes, deltas_sent,
                   requests, source_changes, stale_served,
                   worker_ticks, reloads,
                   last_tick, last_get>>
    /\ UNCHANGED <<trackerVars, serverFrame>>

WsRecvDelta ==
    /\ delta_rx # <<>>
    /\ delta_rx' = Tail(delta_rx)
    /\ ws_out' = IF use_deltas
                 THEN Append(ws_out, [type |-> "graph:delta",
                                      sequence |-> Head(delta_rx).sequence])
                 ELSE ws_out
    /\ UNCHANGED <<started, nodes, edges, update_queue, arrow_cache, hpc, hreq,
                   hres, hupdate, use_deltas, update_rx, falkor, last_node_count,
                   last_edge_count, store_changes, deltas_sent, requests,
                   source_changes, stale_served,
                   worker_ticks, reloads,
                   last_tick, last_get>>
    /\ UNCHANGED <<trackerVars, serverFrame>>

WsRecvUpdate ==
    /\ update_rx # <<>>
    /\ update_rx' = Tail(update_rx)
    /\ ws_out' = IF ~use_deltas
                 THEN Append(ws_out, [type |-> "graph:update", sequence |-> 0])
                 ELSE ws_out
    /\ UNCHANGED <<started, nodes, edges, update_queue, arrow_cache, hpc, hreq,
                   hres, hupdate, use_deltas, delta_rx, falkor, last_node_count,
                   last_edge_count, store_changes, deltas_sent, requests,
                   source_changes, stale_served,
                   worker_ticks, reloads,
                   last_tick, last_get>>
    /\ UNCHANGED <<trackerVars, serverFrame>>

\* the server's background tasks and update handlers
NextServer ==
    \/ Startup
    \/ WorkerTick
    \/ SourceChange
    \/ ReconcilerTick
    \/ HandlerStart
    \/ HandlerQueueEdges
    \/ HandlerDrain
    \/ HandlerRespond

\* the publishers of the two broadcast channels and one WebSocket client
NextSocket ==
    \/ Startup
    \/ WorkerTick
    \/ HandlerStart
    \/ HandlerQueueEdges
    \/ HandlerDrain
    \/ HandlerRespond
    \/ WsCommand
    \/ WsRecvDelta
    \/ WsRecvUpdate

\* the drain worker, the HTTP update handlers and the columnar GET
NextArrow ==
    \/ Startup
    \/ WorkerTick
    \/ HandlerStart
    \/ HandlerQueueEdges
    \/ HandlerDrain
    \/ HandlerRespond
    \/ GetNodesArrow

(***************************************************************************)
(* SearchEngine (graphiti-search-rs/src/search/mod.rs, reranking.rs).      *)
(* Every handler builds its own SearchEngine for one request; what the     *)
(* requests share is the remote KV store.  search/cache.rs is not among    *)
(* the sources: the engine's get_or_compute follows section 4.5 of the     *)
(* specification.                                                          *)
(***************************************************************************)
\* bound: how many search requests one behaviour makes
MaxSearches == 2

\* bound: the largest limit a request asks for
MaxLimit == 2

\* bound: the largest number of rows the graph store holds for one method
MaxHits == 2

\* Result<T, E>
Ok(v) == [is_err |-> FALSE, value |-> v]

Err(e) == [is_err |-> TRUE, value |-> e]

\* the limit the orchestrator passes to every node and edge method
MethodLimit == 100

\* the limit handed to the MMR reranker
MmrLimit == 100

\* the k of reciprocal rank fusion
RrfK == 60

\* Node.embedding of the nodes of the graph store: a vector of one
\* dimension and norm 1, named by its only coordinate
NodeEmbedding == [n \in {"n1", "n2", "n3"} |->
                    IF n = "n1" THEN Some(1) ELSE IF n = "n2" THEN Some(-1) ELSE NoneV]

\* edges carry no embedding (rerank_edges passes |_edge| None)
EdgeEmbedding == [e \in {"e1", "e2", "e3"} |-> NoneV]

\* Edge.episodes.len() of the edges of the graph store
EdgeEpisodes == [e \in {"e1", "e2", "e3"} |->
                    IF e = "e1" THEN 0 ELSE IF e = "e2" THEN 2 ELSE 1]

\* cosine_similarity_simd of two vectors of one dimension and norm 1
cosine_similarity_simd(a, b) == a * b

\* method_results.into_iter().flatten().collect()
RECURSIVE Flatten(_)
Flatten(lists) ==
    IF lists = <<>> THEN <<>> ELSE Head(lists) \o Flatten(Tail(lists))

\* seen.insert(uuid) over the lists in order: the first occurrences
RECURSIVE Dedup(_, _)
Dedup(s, seen) ==
    IF s = <<>> THEN <<>>
    ELSE IF Head(s) \in seen THEN Dedup(Tail(s), seen)
    ELSE <<Head(s)>> \o Dedup(Tail(s), seen \cup {Head(s)})

\* 1.0 / (k + rank + 1.0), as an integer: scaled by the product of the
\* denominators of the ranks 0..MaxHits
RECURSIVE RrfProduct(_)
RrfProduct(rank) ==
    IF rank < 0 THEN 1 ELSE (RrfK + rank + 1) * RrfProduct(rank - 1)

RrfTerm(rank) == RrfProduct(MaxHits) \div (RrfK + rank + 1)

RECURSIVE RrfListScore(_, _, _)
RrfListScore(list, id, j) ==
    IF j > Len(list) THEN 0
    ELSE (IF list[j] = id THEN RrfTerm(j - 1) ELSE 0) + RrfListScore(list, id, j + 1)

RECURSIVE RrfScore(_, _)
RrfScore(ranked_lists, id) ==
    IF ranked_lists = <<>> THEN 0
    ELSE RrfListScore(Head(ranked_lists), id, 1) + RrfScore(Tail(ranked_lists), id)

\* reciprocal_rank_fusion: the scores are collected in a HashMap whose
\* iteration order is unspecified and then sorted by descending score with
\* a stable sort, so items of equal score come out in any order.  The
\* value is the set of lists the call can return.
reciprocal_rank_fusion(ranked_lists) ==
    LET ids == Range(Flatten(ranked_lists))
    IN  {f \in Perms(ids) :
            \A i \in DOMAIN f : \A j \in DOMAIN f :
                i < j => RrfScore(ranked_lists, f[i]) >= RrfScore(ranked_lists, f[j])}

\* the score of one remaining item in a round of MMR, times 2;
\* lambda2 is 2 * lambda
MmrScore(item, selected, query, embedding, lambda2) ==
    IF embedding[item] = NoneV THEN 0
    ELSE LET item_emb == embedding[item][1]
             sims == {cosine_similarity_simd(item_emb, embedding[selected[k]][1]) :
                        k \in {k \in DOMAIN selected : embedding[selected[k]] # NoneV}}
             max_similarity == IF sims = {} THEN 0 ELSE Max(sims)
         IN  lambda2 * cosine_similarity_simd(query, item_emb)
                 - (2 - lambda2) * max_similarity

\* the while loop of maximal_marginal_relevance; max_by returns the last
\* of several maximal elements
RECURSIVE MmrLoop(_, _, _, _, _, _)
MmrLoop(remaining, selected, query, embedding, lambda2, limit) ==
    IF ~(Len(selected) < limit /\ remaining # <<>>) THEN selected
    ELSE LET score(k) == MmrScore(remaining[k], selected, query, embedding, lambda2)
             best == Max({score(k) : k \in DOMAIN remaining})
             max_idx == Max({k \in DOMAIN remaining : score(k) = best})
         IN  MmrLoop(RemoveAt(remaining, max_idx), Append(selected, remaining[max_idx]),
                     query, embedding, lambda2, limit)

maximal_marginal_relevance(items, query_embedding, embedding, lambda2, limit) ==
    IF items = <<>> \/ query_embedding = NoneV THEN Take(items, limit)
    ELSE MmrLoop(items, <<>>, query_embedding[1], embedding, lambda2, limit)

\* sort_by_key(|edge| Reverse(edge.episodes.len())): a stable sort
RECURSIVE SortByEpisodes(_)
SortByEpisodes(s) ==
    IF s = <<>> THEN <<>>
    ELSE LET rest == SortByEpisodes(Tail(s))
             \* the head stays before the later items that have no more
             \* episodes than it has
             before_ == {k \in DOMAIN rest : EdgeEpisodes[rest[k]] <= EdgeEpisodes[Head(s)]}
             pos == IF before_ = {} THEN Len(rest) + 1 ELSE Min(before_)
         IN  SubSeq(rest, 1, pos - 1) \o <<Head(s)>> \o SubSeq(rest, pos, Len(rest))

EdgeRerankers == {"Rrf", "Mmr", "CrossEncoder", "NodeDistance", "EpisodeMentions"}

\* models.rs NodeReranker has no CentralityBoosted variant, so no request
\* selects that arm of rerank_nodes
NodeRerankers == {"Rrf", "Mmr", "CrossEncoder", "EpisodeMentions", "NodeDistance"}

\* rerank_edges: the set of lists the call can return (it never fails)
rerank_edges(method_results, reranker, query_vector, mmr_lambda) ==
    CASE reranker = "Rrf" -> reciprocal_rank_fusion(method_results)
      [] reranker = "Mmr" ->
            {maximal_marginal_relevance(Flatten(method_results), query_vector,
                                        EdgeEmbedding, mmr_lambda, MmrLimit)}
      [] reranker = "CrossEncoder" -> {Dedup(Flatten(method_results), {})}
      [] reranker = "NodeDistance" -> {Flatten(method_results)}
      [] reranker = "EpisodeMentions" -> {SortByEpisodes(Flatten(method_results))}

\* rerank_nodes: the set of lists the call can return (it never fails)
rerank_nodes(method_results, reranker, query_vector, mmr_lambda) ==
    CASE reranker = "Rrf" -> reciprocal_rank_fusion(method_results)
      [] reranker = "Mmr" ->
            {maximal_marginal_relevance(Flatten(method_results), query_vector,
                                        NodeEmbedding, mmr_lambda, MmrLimit)}
      [] reranker = "CrossEncoder" -> {Dedup(Flatten(method_results), {})}
      [] reranker \in {"NodeDistance", "EpisodeMentions"} -> {Flatten(method_results)}

\* ---- the requests
Queries == {"q1"}

\* SearchFilters: the default (no filter) and a filter on one group
SearchFilterValues == {[group_ids |-> NoneV], [group_ids |-> Some(<<"g1">>)]}

MethodVecs == {<<"Fulltext">>, <<"Fulltext", "Similarity">>}

\* sim_min_score, in tenths
MinScores == {5}

\* mmr_lambda is 0.5, written in halves; every reranker is tried on the
\* kind's richer method list and Rrf on the other one
EdgeSearchConfigs ==
    {[search_methods |-> m, reranker |-> r, sim_min_score |-> s, mmr_lambda |-> 1] :
        m \in {<<"Fulltext">>}, r \in EdgeRerankers, s \in MinScores}
    \cup {[search_methods |-> m, reranker |-> "Rrf", sim_min_score |-> s,
           mmr_lambda |-> 1] : m \in MethodVecs, s \in MinScores}

NodeSearchConfigs ==
    {[search_methods |-> m, reranker |-> r, sim_min_score |-> s, mmr_lambda |-> 1] :
        m \in {<<"Fulltext", "Similarity">>}, r \in NodeRerankers, s \in MinScores}
    \cup {[search_methods |-> m, reranker |-> "Rrf", sim_min_score |-> s,
           mmr_lambda |-> 1] : m \in MethodVecs, s \in MinScores}

NoConfigs == [edge_config |-> NoneV, node_config |-> NoneV, episode_config |-> NoneV,
              community_config |-> NoneV]

\* SearchConfig without its limit: one result kind enabled, or all four
KindConfigs ==
    {[NoConfigs EXCEPT !.edge_config = Some(c)] : c \in EdgeSearchConfigs}
    \cup {[NoConfigs EXCEPT !.node_config = Some(c)] : c \in NodeSearchConfigs}
    \cup {[NoConfigs EXCEPT !.episode_config = Some("Rrf")],
          [NoConfigs EXCEPT !.community_config = Some("Rrf")]}
    \cup {[edge_config |-> Some(c), node_config |-> Some(d),
           episode_config |-> Some("Rrf"), community_config |-> Some("Rrf")] :
            c \in {e \in EdgeSearchConfigs :
                     e.reranker = "Rrf" /\ e.search_methods = <<"Fulltext">>},
            d \in {n \in NodeSearchConfigs :
                     n.reranker = "Rrf" /\ n.search_methods = <<"Fulltext">>}}

\* SearchRequest, after search_handler has tried to generate the embedding
SearchRequests ==
    {[query |-> q, config |-> c, limit |-> l, filters |-> f, query_vector |-> v] :
        q \in Queries, c \in KindConfigs, l \in 1..MaxLimit,
        f \in SearchFilterValues, v \in {NoneV, Some(1)}}

\* ---- the graph store, as one request finds it
\* the rows a query matches, best first: none, or MaxHits of them
NodeFulltextMatches == {SubSeq(<<"n1", "n2", "n3">>, 1, k) : k \in {0, MaxHits}}

NodeSimilarityMatches == {SubSeq(<<"n3", "n2", "n1">>, 1, k) : k \in {MaxHits}}

EdgeFulltextMatches == {SubSeq(<<"e1", "e2", "e3">>, 1, k) : k \in {0, MaxHits}}

EpisodeMatches == {SubSeq(<<"p1", "p2", "p3">>, 1, k) : k \in {0, MaxHits}}

\* a store call fails, or returns the matching rows up to LIMIT
StoreAnswers(matches) == {[failed |-> TRUE, rows |-> <<>>]}
                            \cup {[failed |-> FALSE, rows |-> m] : m \in matches}

StoreCall(answer, limit) ==
    IF answer.failed THEN Err("Database") ELSE Ok(Take(answer.rows, limit))

NoAnswer == [failed |-> FALSE, rows |-> <<>>]

\* what the pool and the store answer during one request; the calls the
\* request does not make have no answer
StoreStates(request) ==
    {[conn_ok |-> TRUE, ft_edges |-> fe, ft_nodes |-> fn, sim_nodes |-> sn,
      ft_episodes |-> fp] :
        fe \in IF request.config.edge_config = NoneV THEN {NoAnswer}
               ELSE StoreAnswers(EdgeFulltextMatches),
        fn \in IF request.config.node_config = NoneV THEN {NoAnswer}
               ELSE StoreAnswers(NodeFulltextMatches),
        sn \in IF request.config.node_config = NoneV
                    \/ request.query_vector = NoneV THEN {NoAnswer}
               ELSE IF "Similarity" \in Range(request.config.node_config[1].search_methods)
                    THEN StoreAnswers(NodeSimilarityMatches) ELSE {NoAnswer},
        fp \in IF request.config.episode_config = NoneV THEN {NoAnswer}
               ELSE StoreAnswers(EpisodeMatches)}
    \cup {[conn_ok |-> FALSE, ft_edges |-> NoAnswer, ft_nodes |-> NoAnswer,
           sim_nodes |-> NoAnswer, ft_episodes |-> NoAnswer]}

\* ---- the cache keys
\* format!("edges:{}:{:?}:{}", query, config.search_methods, config.sim_min_score)
EdgesCacheKey(query, config) ==
    <<"edges", query, config.search_methods, config.sim_min_score>>

\* format!("nodes:{}:{:?}:{}", query, config.search_methods, config.sim_min_score)
NodesCacheKey(query, config) ==
    <<"nodes", query, config.search_methods, config.sim_min_score>>

\* format!("episodes:{}:{}", query, limit)
EpisodesCacheKey(query, limit) == <<"episodes", query, limit>>

\* ---- the cache of the engine
\* serde_json::to_string of a result list and from_str of the string
ToJson(list) == <<"json", list>>

FromJson(str) == str[2]

KvGet(kvs, key) == IF key \in DOMAIN kvs THEN Some(kvs[key]) ELSE NoneV

KvSet(kvs, key, str) ==
    [k \in DOMAIN kvs \cup {key} |-> IF k = key THEN str ELSE kvs[k]]

\* get_or_compute for one caller: a KV hit returns the stored value; on a
\* miss compute runs, Some(v) is stored and returned, None is returned and
\* nothing is stored, an error is returned and nothing is stored.
\*   computed: the Result<Option<list>> of the compute closure
CacheGetOrCompute(kvs, key, computed) ==
    LET cached == KvGet(kvs, key)
    IN  IF cached # NoneV
        THEN [kv |-> kvs, hit |-> TRUE, stored |-> FALSE,
              result |-> Ok(Some(FromJson(cached[1])))]
        ELSE IF computed.is_err
        THEN [kv |-> kvs, hit |-> FALSE, stored |-> FALSE, result |-> computed]
        ELSE IF computed.value = NoneV
        THEN [kv |-> kvs, hit |-> FALSE, stored |-> FALSE, result |-> Ok(NoneV)]
        ELSE [kv |-> KvSet(kvs, key, ToJson(computed.value[1])), hit |-> FALSE,
              stored |-> TRUE, result |-> computed]

\* get_or_compute(...).await? and result.unwrap_or_else(Vec::new)
UnwrapOrEmpty(r) ==
    [key |-> r.key, hit |-> r.hit, stored |-> r.stored, kv |-> r.kv,
     result |-> IF r.result.is_err THEN Err("Internal")
                ELSE IF r.result.value = NoneV THEN Ok(<<>>)
                ELSE Ok(r.result.value[1])]

\* the loop over config.search_methods: the lists of the methods in order,
\* or the error of the first method that fails (`?`)
MethodResults(outs) ==
    IF \E i \in DOMAIN outs : outs[i].is_err
    THEN outs[Min({i \in DOMAIN outs : outs[i].is_err})]
    ELSE Ok([i \in DOMAIN outs |-> outs[i].value])

\* if reranked.is_empty() { Ok(None) } else { Ok(Some(reranked)) }
NoneIfEmpty(list) == IF list = <<>> THEN Ok(NoneV) ELSE Ok(Some(list))

\* the compute closure of search_edges: the set of its possible results
EdgesCompute(config, query_vector, store) ==
    IF ~store.conn_ok THEN {Err("Failed to get connection")}
    ELSE LET outs == [i \in DOMAIN config.search_methods |->
                        CASE config.search_methods[i] = "Fulltext" ->
                                StoreCall(store.ft_edges, MethodLimit)
                          [] config.search_methods[i] = "Similarity"
                                /\ query_vector # NoneV ->
                                Ok(<<>>)     \* search_edges_by_embedding
                          [] OTHER -> Ok(<<>>)]
             method_results == MethodResults(outs)
         IN  IF method_results.is_err THEN {method_results}
             ELSE {NoneIfEmpty(reranked) :
                     reranked \in rerank_edges(method_results.value, config.reranker,
                                               query_vector, config.mmr_lambda)}

\* search_edges: the set of its possible outcomes
search_edges(kvs, query, config, filters, query_vector, store) ==
    LET cache_key == EdgesCacheKey(query, config)
    IN  {UnwrapOrEmpty([key |-> cache_key] @@ CacheGetOrCompute(kvs, cache_key, computed)) :
            computed \in EdgesCompute(config, query_vector, store)}

\* the compute closure of search_nodes: the set of its possible results
NodesCompute(config, query_vector, store) ==
    IF ~store.conn_ok THEN {Err("Failed to get connection")}
    ELSE LET outs == [i \in DOMAIN config.search_methods |->
                        CASE config.search_methods[i] = "Fulltext" ->
                                StoreCall(store.ft_nodes, MethodLimit)
                          [] config.search_methods[i] = "Similarity"
                                /\ query_vector # NoneV ->
                                StoreCall(store.sim_nodes, MethodLimit)
                          [] OTHER -> Ok(<<>>)]
             method_results == MethodResults(outs)
         IN  IF method_results.is_err THEN {method_results}
             ELSE {NoneIfEmpty(reranked) :
                     reranked \in rerank_nodes(method_results.value, config.reranker,
                                               query_vector, config.mmr_lambda)}

\* search_nodes: the set of its possible outcomes
search_nodes(kvs, query, config, filters, query_vector, store) ==
    LET cache_key == NodesCacheKey(query, config)
    IN  {UnwrapOrEmpty([key |-> cache_key] @@ CacheGetOrCompute(kvs, cache_key, computed)) :
            computed \in NodesCompute(config, query_vector, store)}

\* search_episodes
search_episodes(kvs, query, filters, limit, store) ==
    LET cache_key == EpisodesCacheKey(query, limit)
        computed == IF ~store.conn_ok THEN Err("Failed to get connection")
                    ELSE LET episodes == StoreCall(store.ft_episodes, limit)
                         IN  IF episodes.is_err THEN episodes
                             ELSE NoneIfEmpty(episodes.value)
    IN  UnwrapOrEmpty([key |-> cache_key] @@ CacheGetOrCompute(kvs, cache_key, computed))

\* search_communities: search_communities_by_embedding returns no rows
search_communities(query, config, filters, query_vector, store) ==
    IF query_vector # NoneV
    THEN IF ~store.conn_ok THEN Err("Database") ELSE Ok(<<>>)
    ELSE Ok(<<>>)

\* ---- SearchEngine::search
\* a result kind the request does not enable
Skip(kvs) == [ran |-> FALSE, key |-> NoneV, hit |-> FALSE, stored |-> FALSE,
              kv |-> kvs, result |-> Ok(<<>>)]

Run(r) == [ran |-> TRUE] @@ r

\* what the history keeps of one result kind
KindRecord(r) == [ran |-> r.ran, key |-> r.key, hit |-> r.hit, stored |-> r.stored,
                  result |-> r.result]

SearchOutcome(kvs, e, n, p, response) ==
    [kv |-> kvs, edges |-> KindRecord(e), nodes |-> KindRecord(n),
     episodes |-> KindRecord(p), response |-> response]

\* SearchEngine::search: edges, nodes, episodes and communities in turn,
\* each error returned at once (`?`); the set of its possible outcomes
search(kvs, request, store) ==
    LET c == request.config
        Edges == IF c.edge_config = NoneV THEN {Skip(kvs)}
                 ELSE {Run(r) : r \in search_edges(kvs, request.query, c.edge_config[1],
                                    request.filters, request.query_vector, store)}
        Nodes(k) == IF c.node_config = NoneV THEN {Skip(k)}
                    ELSE {Run(r) : r \in search_nodes(k, request.query, c.node_config[1],
                                    request.filters, request.query_vector, store)}
        Episodes(k) == IF c.episode_config = NoneV THEN Skip(k)
                       ELSE Run(search_episodes(k, request.query, request.filters,
                                                request.limit, store))
        communities == IF c.community_config = NoneV THEN Ok(<<>>)
                       ELSE search_communities(request.query, c.community_config[1],
                                    request.filters, request.query_vector, store)
        AfterNodes(e, n) ==
            LET p == Episodes(n.kv)
            IN  IF p.result.is_err THEN SearchOutcome(p.kv, e, n, p, p.result)
                ELSE IF communities.is_err
                THEN SearchOutcome(p.kv, e, n, p, communities)
                ELSE SearchOutcome(p.kv, e, n, p,
                        Ok([edges |-> e.result.value, nodes |-> n.result.value,
                            episodes |-> p.result.value,
                            communities |-> communities.value]))
    IN  UNION {IF e.result.is_err
               THEN {SearchOutcome(e.kv, e, Skip(e.kv), Skip(e.kv), e.result)}
               ELSE {IF n.result.is_err
                     THEN SearchOutcome(n.kv, e, n, Skip(n.kv), n.result)
                     ELSE AfterNodes(e, n) : n \in Nodes(e.kv)} : e \in Edges}

NoSearch == [searched |-> FALSE]

SearchInit ==
    /\ search_kv = <<>>
    /\ kv_origin = <<>>
    /\ last_search = NoSearch
    /\ searches = 0

\* search_handler: one request, served by an engine of its own
Search ==
    /\ searches < MaxSearches
    /\ \E request \in SearchRequests : \E store \in StoreStates(request) :
         \E o \in search(search_kv, request, store) :
            /\ search_kv' = o.kv
            /\ kv_origin' = [k \in DOMAIN o.kv |->
                                IF k \in DOMAIN search_kv THEN kv_origin[k]
                                ELSE [filters |-> request.filters,
                                      limit |-> request.limit]]
            /\ last_search' = [searched |-> TRUE, request |-> request, store |-> store,
                               edges |-> o.edges, nodes |-> o.nodes,
                               episodes |-> o.episodes, response |-> o.response]
    /\ searches' = searches + 1
    /\ UNCHANGED <<trackerVars, coalescerVars, cacheVars, storeVars, serverVars,
                   exportVars, restVars>>

\* the KV entries outlive the behaviours of the model: their TTL is at
\* least cold_ttl seconds
NextSearch == Search

(***************************************************************************)
(* refresh_arrow_cache (main.rs:1758-1808): the POST /api/arrow/refresh    *)
(* handler.  get_nodes_as_arrow and get_edges_as_arrow each hold the       *)
(* connection mutex for their whole body (duckdb_store.rs:303, 399), so    *)
(* each call reads one committed state; the handler makes the two calls    *)
(* one after the other, and the drain worker and the reconciler, spawned   *)
(* on the multi-threaded runtime (main.rs:187, 447, 467), can take the     *)
(* mutex between them.                                                     *)
(***************************************************************************)
\* bound: refresh requests in a behaviour
MaxRefreshes == 2

\* a query of the export can fail (the ? at duckdb_store.rs:305-330, 401-430)
ExportResults(batches) == {Ok(b) : b \in batches} \cup {Err("duckdb")}

NoRefresh ==
    [done |-> FALSE, status |-> 0, nodes_batch |-> <<>>, edges_batch |-> <<>>,
     first |-> [nodes |-> <<>>, edges |-> <<>>],
     second |-> [nodes |-> <<>>, edges |-> <<>>]]

RefreshInit ==
    /\ rpc = "idle"
    /\ rnodes = Err("none")
    /\ rstore = [nodes |-> <<>>, edges |-> <<>>]
    /\ last_refresh = NoRefresh
    /\ refreshes = 0


\* main.rs:1763: state.duckdb_store.get_nodes_as_arrow().await
RefreshReadNodes ==
    /\ rpc = "idle"
    /\ refreshes < MaxRefreshes
    /\ \E r \in ExportResults(get_nodes_as_arrow(nodes)) : rnodes' = r
    /\ rstore' = [nodes |-> nodes, edges |-> edges]
    /\ rpc' = "edges"
    /\ refreshes' = refreshes + 1
    /\ UNCHANGED last_refresh
    /\ UNCHANGED <<trackerVars, coalescerVars, cacheVars, storeVars, serverVars,
                   exportVars, searchVars, notRefresh>>

\* main.rs:1764-1806: get_edges_as_arrow().await, then the match: with both
\* batches the cache is replaced and the answer is 200, otherwise 500
RefreshReadEdges ==
    /\ rpc = "edges"
    /\ \E r \in ExportResults(get_edges_as_arrow(nodes, edges)) :
        IF ~rnodes.is_err /\ ~r.is_err
        THEN /\ arrow_cache' = Some(ArrowPayload(rstore.nodes, edges))
             /\ last_refresh' =
                    [done |-> TRUE, status |-> 200,
                     nodes_batch |-> rnodes.value, edges_batch |-> r.value,
                     first |-> rstore,
                     second |-> [nodes |-> nodes, edges |-> edges]]
        ELSE /\ UNCHANGED arrow_cache
             /\ last_refresh' = [NoRefresh EXCEPT !.done = TRUE, !.status = 500]
    /\ rpc' = "idle"
    /\ UNCHANGED <<rnodes, rstore, refreshes>>
    /\ UNCHANGED <<started, hpc, hreq, hres, hupdate, use_deltas, delta_rx,
                   update_rx, ws_out, falkor, last_node_count, last_edge_count,
                   store_changes, deltas_sent, requests, source_changes,
                   stale_served, worker_ticks, reloads, last_tick, last_get>>
    /\ UNCHANGED <<trackerVars, coalescerVars, cacheVars, storeVars, exportVars,
                   searchVars, notRefresh>>

\* the refresh handler with the store's queueing, drains and reloads
NextRefresh ==
    \/ QueueNodes
    \/ QueueEdges
    \/ QueueNodeDeletions
    \/ ProcessUpdates
    \/ LoadInitialData
    \/ RefreshReadNodes
    \/ RefreshReadEdges

(***************************************************************************)
(* Cancellation of a caller of RequestCoalescer::get_or_compute            *)
(* (cache.rs:71-111).  A caller is cancelled by dropping its future, which *)
(* can happen only where it is suspended; the caller that computes is      *)
(* suspended in compute().await (cache.rs:94).  Dropping it runs no code   *)
(* of get_or_compute: the entry it inserted stays in the map with None,    *)
(* and no cleanup task is spawned for it.                                  *)
(***************************************************************************)
\* bound: callers dropped in a behaviour
MaxCancels == 1

NoCancel == [cancelled |-> FALSE, caller |-> 0, key |-> None, waiters |-> {}]

CancelInit ==
    /\ cancels = 0
    /\ cancelled_at = NoCancel

\* the callers that hold the entry of caller c and wait on its mutex
\* (cache.rs:77-82)
WaitersOn(c) ==
    {w \in Callers \ {c} :
        pc[w] = "lock" /\ ckey[w] = ckey[c] /\ cmutex[w] = cmutex[c]}

\* the future of the computing caller c is dropped in compute().await
Cancel(c) ==
    /\ pc[c] = "computing"
    /\ cancels < MaxCancels
    /\ pc' = [pc EXCEPT ![c] = "cancelled"]
    /\ cancels' = cancels + 1
    /\ cancelled_at' = [cancelled |-> TRUE, caller |-> c, key |-> ckey[c],
                        waiters |-> WaitersOn(c)]
    /\ UNCHANGED <<inflight, mutex_val, cleanup_tasks, ckey, cmutex, cvalue, cret,
                   computes, early, result_stored>>
    /\ UNCHANGED <<trackerVars, cacheVars, storeVars, serverVars, exportVars,
                   searchVars, notCancel>>

\* the coalescer with cancellation
NextCancel ==
    \/ \E c \in Callers, k \in Keys : Call(c, k)
    \/ \E c \in Callers : CheckInflight(c)
    \/ \E c \in Callers : LockAndRead(c)
    \/ \E c \in Callers : InsertInflight(c)
    \/ \E c \in Callers : Compute(c)
    \/ \E c \in Callers : StoreAndReturn(c)
    \/ \E i \in 1..NumCallers : DelayedCleanup(i)
    \/ \E c \in Callers : Cancel(c)


(***************************************************************************)
(* A WebSocket subscriber that falls behind (websocket.rs:20-83,           *)
(* main.rs:737-873) on update_tx, the channel of main.rs:217.  The delta   *)
(* arm of the select! has the same form on delta_tx (main.rs:218).         *)
(***************************************************************************)
\* bound: values sent on the channel in a behaviour
MaxSends == 130

\* broadcast::channel::<GraphUpdate>(100)
channel_capacity == 100

\* the channel retains at least the requested capacity; tokio rounds the
\* buffer up to the next power of two
RECURSIVE NextPowerOfTwo(_, _)
NextPowerOfTwo(n, p) == IF p >= n THEN p ELSE NextPowerOfTwo(n, 2 * p)

RoundedCapacity == NextPowerOfTwo(channel_capacity, 1)

LagInit ==
    /\ bc_cap = 0
    /\ bc_sent = 0
    /\ bc_next = 0
    /\ bc_disabled = FALSE
    /\ bc_skipped = 0
    /\ ws_types = {"connected"}
    /\ ws_last = 0

\* broadcast::channel::<GraphUpdate>(100) in main (main.rs:217)
CreateChannel ==
    /\ bc_cap = 0
    /\ bc_cap' \in {channel_capacity, RoundedCapacity}
    /\ UNCHANGED <<bc_sent, bc_next, bc_disabled, bc_skipped, ws_types, ws_last>>
    /\ UNCHANGED <<trackerVars, coalescerVars, cacheVars, storeVars, serverVars,
                   exportVars, searchVars, notLag>>

\* state.update_tx.send(update) by a publisher
BroadcastSend ==
    /\ bc_cap > 0
    /\ bc_sent < MaxSends
    /\ bc_sent' = bc_sent + 1
    /\ UNCHANGED <<bc_cap, bc_next, bc_disabled, bc_skipped, ws_types, ws_last>>
    /\ UNCHANGED <<trackerVars, coalescerVars, cacheVars, storeVars, serverVars,
                   exportVars, searchVars, notLag>>

\* Receiver::recv: Err(Lagged(n)) when values the receiver has not seen were
\* overwritten, moving it to the oldest retained value; otherwise the next
\* value
broadcast_recv(cap, sent, next) ==
    IF sent - next > cap
    THEN [result |-> Err(sent - cap - next), next |-> sent - cap]
    ELSE [result |-> Ok(next + 1), next |-> next + 1]

\* the arm `Ok(update) = update_rx.recv() => { if !use_deltas { send } }`
\* (websocket.rs:64-77, main.rs:856-868): a result that does not match the
\* pattern disables the arm until the select! completes through another
\* arm; nothing is written to the socket for it
WsRecvArm ==
    /\ bc_cap > 0
    /\ ~bc_disabled
    /\ bc_next < bc_sent
    /\ \E r \in {broadcast_recv(bc_cap, bc_sent, bc_next)} :
        /\ bc_next' = r.next
        /\ IF r.result.is_err
           THEN /\ bc_disabled' = TRUE
                /\ bc_skipped' = bc_skipped + r.result.value
                /\ UNCHANGED <<ws_types, ws_last>>
           ELSE /\ ws_types' = IF ~use_deltas THEN ws_types \cup {"graph:update"}
                               ELSE ws_types
                /\ ws_last' = IF ~use_deltas THEN r.result.value ELSE ws_last
                /\ UNCHANGED <<bc_disabled, bc_skipped>>
    /\ UNCHANGED <<bc_cap, bc_sent>>
    /\ UNCHANGED <<trackerVars, coalescerVars, cacheVars, storeVars, serverVars,
                   exportVars, searchVars, notLag>>

\* the arm `Some(msg) = socket.recv()` with a "ping" command
\* (main.rs:791-801): the answer is a pong, and the loop enters select!
\* anew with every arm enabled
WsPing ==
    /\ bc_cap > 0
    /\ ws_types' = ws_types \cup {"pong"}
    /\ bc_disabled' = FALSE
    /\ UNCHANGED <<bc_cap, bc_sent, bc_next, bc_skipped, ws_last>>
    /\ UNCHANGED <<trackerVars, coalescerVars, cacheVars, storeVars, serverVars,
                   exportVars, searchVars, notLag>>

NextLag ==
    \/ CreateChannel
    \/ BroadcastSend
    \/ WsRecvArm
    \/ WsPing


(***************************************************************************)
(* Calls of reciprocal_rank_fusion (reranking.rs:8-30) on ranked lists of  *)
(* distinct items.                                                         *)
(***************************************************************************)
RrfItems == {"a", "b", "c"}

\* the ranked lists: no item twice, at most MaxHits + 1 items
RankedLists ==
    {l \in SeqsUpTo(RrfItems, MaxHits + 1) : Cardinality(Range(l)) = Len(l)}

\* one list, two lists, and three copies of one list
RrfInputs ==
    {<<l>> : l \in RankedLists}
        \cup {<<l1, l2>> : l1 \in RankedLists, l2 \in RankedLists}
        \cup {<<l, l, l>> : l \in RankedLists}

NoCall == [called |-> FALSE]

CallsInit == last_rrf = NoCall /\ last_parse = NoCall /\ last_bfs = NoCall

RrfCall ==
    /\ \E lists \in RrfInputs : \E r \in reciprocal_rank_fusion(lists) :
          last_rrf' = [called |-> TRUE, ranked_lists |-> lists, result |-> r]
    /\ UNCHANGED <<last_parse, last_bfs>>
    /\ UNCHANGED notCalls

NextRrf == RrfCall


(***************************************************************************)
(* The parser of FalkorDB result sets (falkor/parser_v2.rs): a result is a *)
(* sequence of rows, a row a sequence of FalkorValue.                      *)
(***************************************************************************)
\* bound: rows of a result set
MaxRows == 2

FString(str) == [kind |-> "String", v |-> str]

\* an integer value, kept as its decimal digits
FI64(digits) == [kind |-> "I64", v |-> digits]

FNode(properties) == [kind |-> "Node", properties |-> properties]

\* the property maps of the nodes of the results: the uuid is a UUID
\* string, a string that is no UUID, an integer, or absent; the name is
\* present or absent
UuidValues == {FString("u1"), FString("u2"), FString("not-a-uuid"), FI64("7")}

NodeProperties ==
    {[k \in {"uuid", "name"} |-> IF k = "uuid" THEN u ELSE FString("n")] :
        u \in UuidValues}
      \cup {[k \in {"uuid"} |-> u] : u \in {FString("u1")}}
      \cup {[k \in {"name", "summary", "created_at"} |->
                IF k = "created_at" THEN FI64("5") ELSE FString(k)]}

\* a row holds a node, or a node and its score
ResultRows ==
    {<<FNode(p)>> : p \in NodeProperties}
        \cup {<<FNode(p), FI64("1")>> : p \in NodeProperties}

ResultSets == SeqsUpTo(ResultRows, MaxRows)

\* get_string_property: Err unless the key holds a string (157-165)
get_string_property(node, key) ==
    IF key \in DOMAIN node.properties /\ node.properties[key].kind = "String"
    THEN Ok(node.properties[key].v)
    ELSE Err(<<"Missing property", key>>)

\* get_optional_string_property (167-172)
get_optional_string_property(node, key) ==
    IF key \in DOMAIN node.properties /\ node.properties[key].kind = "String"
    THEN Some(node.properties[key].v)
    ELSE NoneV

\* get_datetime_property (174-186): the timestamp as seconds
get_datetime_property(node, key) ==
    IF key \in DOMAIN node.properties /\ node.properties[key].kind \in {"F64", "I64"}
    THEN Ok(<<"timestamp", node.properties[key].v>>)
    ELSE Err(<<"Missing datetime property", key>>)

\* get_optional_float_property (199-205)
get_optional_float_property(node, key) ==
    IF key \in DOMAIN node.properties /\ node.properties[key].kind \in {"F64", "I64"}
    THEN Some(node.properties[key].v)
    ELSE NoneV

\* Uuid::parse_str: the strings u1, u2, ... are well-formed UUIDs
Uuid_parse_str(str) ==
    IF str \in {"u1", "u2"} THEN Ok(<<"Uuid", str>>)
    ELSE Err("Failed to parse UUID")

UnwrapOr(r, default) == IF r.is_err THEN default ELSE r.value

\* parse_single_node_v2 (67-92): Result<Option<Node>>
parse_single_node_v2(falkor_node) ==
    LET uuid_str == get_string_property(falkor_node, "uuid")
        name == get_string_property(falkor_node, "name")
    IN  IF uuid_str.is_err THEN uuid_str          \* ? at line 69
        ELSE IF name.is_err THEN name             \* ? at line 70
        ELSE LET uuid == Uuid_parse_str(uuid_str.value)
             IN  IF uuid.is_err THEN uuid         \* ? at line 80
                 ELSE Ok(Some(
                   [uuid |-> uuid.value,
                    name |-> name.value,
                    node_type |-> UnwrapOr(get_string_property(falkor_node,
                                                "entity_type"), "entity"),
                    summary |-> get_optional_string_property(falkor_node, "summary"),
                    created_at |-> UnwrapOr(get_datetime_property(falkor_node,
                                                "created_at"), <<"timestamp", "now">>),
                    embedding |-> NoneV,
                    group_id |-> get_optional_string_property(falkor_node, "group_id"),
                    centrality |-> get_optional_float_property(falkor_node,
                                                "centrality")]))

\* the loop of parse_nodes_from_falkor_v2 over the values of the rows, with
\* the nodes collected so far: the ? at line 17 returns the first error
RECURSIVE ParseValues(_, _)
ParseValues(values, parsed) ==
    IF values = <<>> THEN Ok(parsed)
    ELSE IF Head(values).kind # "Node" THEN ParseValues(Tail(values), parsed)
    ELSE LET r == parse_single_node_v2(Head(values))
         IN  IF r.is_err THEN r
             ELSE IF r.value = NoneV THEN ParseValues(Tail(values), parsed)
             ELSE ParseValues(Tail(values), Append(parsed, r.value[1]))

\* parse_nodes_from_falkor_v2 (9-25)
parse_nodes_from_falkor_v2(result) == ParseValues(Flatten(result), <<>>)

ParseNodes ==
    /\ \E result \in ResultSets :
          last_parse' = [called |-> TRUE, result |-> result,
                         parsed |-> parse_nodes_from_falkor_v2(result)]
    /\ UNCHANGED <<last_rrf, last_bfs>>
    /\ UNCHANGED notCalls

NextParse == ParseNodes

(***************************************************************************)
(* graphiti-search-rs: calculate_shortest_paths (bfs.rs:34-61) on the       *)
(* adjacency lists over three nodes.  A key may be absent, a list may name  *)
(* a node twice, name its own key, or name a node that has no key.          *)
(***************************************************************************)
MaxNeighbors == 2

BfsNodes == {"A", "B", "C"}

\* HashMap<String, Vec<String>>
AdjacencyLists ==
    UNION {[keys -> SeqsUpTo(BfsNodes, MaxNeighbors)] : keys \in SUBSET BfsNodes}

\* HashMap::insert
Insert(map, key, value) ==
    [k \in DOMAIN map \cup {key} |-> IF k = key THEN value ELSE map[k]]

\* a variant that records the distance of a neighbour seen before again
DiscoverAgain(st, neighbor, current_distance) ==
    IF neighbor \in st.visited
    THEN [st EXCEPT !.distances = Insert(@, neighbor, current_distance + 1)]
    ELSE [visited |-> st.visited \cup {neighbor},
          distances |-> Insert(st.distances, neighbor, current_distance + 1),
          queue |-> Append(st.queue, neighbor)]

\* the body of the loop over the neighbours (50-56)
Discover(st, neighbor, current_distance) ==
    IF neighbor \in st.visited
    THEN st
    ELSE [visited |-> st.visited \cup {neighbor},
          distances |-> Insert(st.distances, neighbor, current_distance + 1),
          queue |-> Append(st.queue, neighbor)]

\* for neighbor in neighbors (50)
RECURSIVE VisitNeighbors(_, _, _)
VisitNeighbors(st, neighbors, current_distance) ==
    IF neighbors = <<>> THEN st
    ELSE VisitNeighbors(Discover(st, Head(neighbors), current_distance),
                        Tail(neighbors), current_distance)

\* while let Some(current) = queue.pop_front() (46-58)
RECURSIVE BfsLoop(_, _)
BfsLoop(adjacency_list, st) ==
    IF st.queue = <<>> THEN st
    ELSE LET current == Head(st.queue)
             popped == [st EXCEPT !.queue = Tail(@)]
             current_distance == st.distances[current]
         IN  IF current \in DOMAIN adjacency_list
             THEN BfsLoop(adjacency_list,
                          VisitNeighbors(popped, adjacency_list[current],
                                         current_distance))
             ELSE BfsLoop(adjacency_list, popped)

\* calculate_shortest_paths (34-61)
calculate_shortest_paths(adjacency_list, start_node) ==
    BfsLoop(adjacency_list,
            [distances |-> Insert(<<>>, start_node, 0),
             visited |-> {start_node},
             queue |-> <<start_node>>]).distances

\* the arguments of a call
BfsArguments ==
    /\ last_bfs = NoCall
    /\ \E adjacency_list \in AdjacencyLists : \E start_node \in BfsNodes :
          last_bfs' = [called |-> FALSE, adjacency_list |-> adjacency_list,
                       start_node |-> start_node]
    /\ UNCHANGED <<last_rrf, last_parse>>
    /\ UNCHANGED notCalls

\* the call
ShortestPaths ==
    /\ last_bfs # NoCall
    /\ ~last_bfs.called
    /\ last_bfs' =
          [called |-> TRUE, adjacency_list |-> last_bfs.adjacency_list,
           start_node |-> last_bfs.start_node,
           distances |-> calculate_shortest_paths(last_bfs.adjacency_list,
                                                  last_bfs.start_node)]
    /\ UNCHANGED <<last_rrf, last_parse>>
    /\ UNCHANGED notCalls

NextBfs == BfsArguments \/ ShortestPaths


(***************************************************************************)
(* FeedbackProcessor::process_feedback (graphiti-centrality-rs,            *)
(* feedback.rs:57-154): one request.  Every query is awaited, so the       *)
(* request advances one query at a time; memory_scores is a HashMap, so    *)
(* the loop takes the entries in any order.                                *)
(***************************************************************************)
\* bound: entries of request.memory_scores
MaxBatch == 7

\* if updated_nodes.len() > 5
pagerank_threshold == 5

MemoryIds == {<<"m", i>> : i \in 1..MaxBatch}

\* the uuid of the node a memory id matches
UuidOf(memory_id) == <<"uuid", memory_id[2]>>

\* what the update query of one entry can give: an error or the rows of the
\* updated nodes, of which the code reads the first only (results.first()); the node of m1 may have no uuid property, so that the uuid
\* of its row is null, and m2 may match no node, so that there is no row
QueryOutcomes(memory_id) ==
    {"err", "updated"}
        \cup (IF memory_id[2] = 1 THEN {"updated_null_uuid"} ELSE {})
        \cup (IF memory_id[2] = 2 THEN {"no_match"} ELSE {})

\* the string pushed for the first row (feedback.rs:96-106)
UuidString(memory_id, outcome) ==
    IF outcome = "updated" THEN UuidOf(memory_id) ELSE <<"None", 0>>

FeedbackInit ==
    /\ fb_pc = "idle"
    /\ fb_batch = {}
    /\ fb_remaining = {}
    /\ updated_nodes = <<>>
    /\ fb_succeeded = {}
    /\ fb_failed = {}
    /\ fb_pagerank = "not_run"
    /\ fb_response = NoneV

\* process_feedback is entered (57-66)
FeedbackStart ==
    /\ fb_pc = "idle"
    /\ \E n \in 0..MaxBatch :
          /\ fb_batch' = {<<"m", i>> : i \in 1..n}
          /\ fb_remaining' = {<<"m", i>> : i \in 1..n}
    /\ fb_pc' = "loop"
    /\ UNCHANGED <<updated_nodes, fb_succeeded, fb_failed, fb_pagerank, fb_response>>
    /\ UNCHANGED notFeedback

\* one iteration of the for loop (67-112): the query of one entry and the
\* match on its result
FeedbackUpdateNode ==
    /\ fb_pc = "loop"
    /\ \E memory_id \in fb_remaining : \E outcome \in QueryOutcomes(memory_id) :
          /\ fb_remaining' = fb_remaining \ {memory_id}
          /\ updated_nodes' =
                IF outcome \in {"updated", "updated_null_uuid"}
                THEN Append(updated_nodes, UuidString(memory_id, outcome))
                ELSE updated_nodes
          /\ fb_succeeded' =
                IF outcome \in {"updated", "updated_null_uuid"}
                THEN fb_succeeded \cup {memory_id} ELSE fb_succeeded
          /\ fb_failed' = IF outcome = "err" THEN fb_failed \cup {memory_id}
                          ELSE fb_failed
    /\ UNCHANGED <<fb_pc, fb_batch, fb_pagerank, fb_response>>
    /\ UNCHANGED notFeedback

\* a variant in which the error of the query is returned
trigger_pagerank_update_strict(query_ok) ==
    IF query_ok THEN Ok("unit") ELSE Err("falkor")

\* trigger_pagerank_update (127-154): Ok(()) whether the query succeeds or
\* fails
trigger_pagerank_update(query_ok) == Ok("unit")

\* after the loop (114-124): the PageRank query when more than 5 nodes were
\* updated, then the response
FeedbackRespond ==
    /\ fb_pc = "loop"
    /\ fb_remaining = {}
    /\ IF Len(updated_nodes) > pagerank_threshold
       THEN \E query_ok \in BOOLEAN :
              /\ fb_pagerank' = IF query_ok THEN "ok" ELSE "failed"
              /\ fb_response' =
                    IF trigger_pagerank_update(query_ok).is_err      \* the ? at 117
                    THEN Some(trigger_pagerank_update(query_ok))
                    ELSE Some(Ok([status |-> "success",
                                  processed_count |-> Len(updated_nodes),
                                  updated_nodes |-> updated_nodes]))
       ELSE /\ fb_response' = Some(Ok([status |-> "success",
                                       processed_count |-> Len(updated_nodes),
                                       updated_nodes |-> updated_nodes]))
            /\ UNCHANGED fb_pagerank
    /\ fb_pc' = "done"
    /\ UNCHANGED <<fb_batch, fb_remaining, updated_nodes, fb_succeeded, fb_failed>>
    /\ UNCHANGED notFeedback

NextFeedback ==
    \/ FeedbackStart
    \/ FeedbackUpdateNode
    \/ FeedbackRespond

(***************************************************************************)
(* graphiti-centrality-rs: calculate_all_centralities (algorithms.rs) and   *)
(* FalkorClient::store_centrality_scores (client.rs).  A score is a number  *)
(* of hundredths, so that 100 is the f64 1.0; the inputs are chosen so that *)
(* every quotient and product of the code is exact.                         *)
(***************************************************************************)
CentralityNodes == {"n1", "n2"}

\* the raw degrees the degree algorithm can give to a node
RawDegrees == {1, 2}

\* the eigenvector scores the power iteration can give to a node
EigenvectorScores == {0, 100}

\* the scores PageRank and the betweenness approximation can give to a node
PagerankScores == {50}

BetweennessScores == {0}

ScoreNames == {"pagerank", "degree", "betweenness", "eigenvector", "importance"}

CentralityProperties == {"pagerank_centrality", "degree_centrality",
                         "betweenness_centrality", "eigenvector_centrality"}

\* degree.scores.values().fold(0.0, max) (635)
MaxDegree(degree) ==
    LET RECURSIVE Fold(_)
        Fold(S) == IF S = {} THEN 0
                   ELSE LET x == CHOOSE y \in S : TRUE
                        IN  Max({degree[x], Fold(S \ {x})})
    IN  Fold(DOMAIN degree)

\* the score map of one node (648-672): degree divided by the largest degree,
\* importance the weighted combination capped at 1.0
NodeScores(node_id, pagerank, degree, betweenness, eigenvector) ==
    LET max_degree == MaxDegree(degree)
        pagerank_score == pagerank[node_id]
        degree_normalized == IF max_degree > 0
                             THEN (degree[node_id] * 100) \div max_degree
                             ELSE 0
        betweenness_score == betweenness[node_id]
        eigenvector_score == eigenvector[node_id]
        importance == Min({(40 * pagerank_score + 30 * eigenvector_score
                              + 20 * degree_normalized + 10 * betweenness_score)
                             \div 100, 100})
    IN  [pagerank |-> pagerank_score,
         degree |-> degree_normalized,
         betweenness |-> betweenness_score,
         eigenvector |-> eigenvector_score,
         importance |-> importance]

\* calculate_all_centralities (613-682), from the results of the four
\* algorithms
calculate_all_centralities(pagerank, degree, betweenness, eigenvector) ==
    [node_id \in CentralityNodes |->
        NodeScores(node_id, pagerank, degree, betweenness, eigenvector)]

\* format!("{}_centrality", score_name)
WithCentralitySuffix ==
    [pagerank |-> "pagerank_centrality", degree |-> "degree_centrality",
     betweenness |-> "betweenness_centrality",
     eigenvector |-> "eigenvector_centrality",
     importance |-> "importance_centrality"]

\* the match on score_name (123-129)
property_name(score_name) ==
    CASE score_name = "pagerank" -> "pagerank_centrality"
      [] score_name = "degree" -> "degree_centrality"
      [] score_name = "betweenness" -> "betweenness_centrality"
      [] score_name = "importance" -> "eigenvector_centrality"
      [] OTHER -> WithCentralitySuffix[score_name]

\* the Display form of an f64 in the query text, and the database's reading
\* of the literal
FormatF64(v) == <<"literal", v>>

ReadLiteral(text) == text[2]

\* the orders in which a HashMap with these keys can be iterated
IterationOrders(keys) ==
    {o \in [1..Cardinality(keys) -> keys] :
        \A i, j \in 1..Cardinality(keys) : o[i] = o[j] => i = j}

\* set_clauses for one node (121-131), the score names taken in this order
SetClauses(node_scores, order) ==
    [i \in 1..Len(order) |->
        [property |-> property_name(order[i]),
         value |-> FormatF64(node_scores[order[i]])]]

\* the database executing SET c1, c2, ...: the assignments in their order
RECURSIVE ExecuteSet(_, _)
ExecuteSet(props, set_clauses) ==
    IF set_clauses = <<>> THEN props
    ELSE ExecuteSet([props EXCEPT ![Head(set_clauses).property] =
                        Some(ReadLiteral(Head(set_clauses).value))],
                    Tail(set_clauses))

NoProperties == [p \in CentralityProperties \cup {"importance_centrality"} |-> NoneV]

CentralityInit ==
    /\ cs_pc = "idle"
    /\ cs_scores = <<>>
    /\ cs_remaining = {}
    /\ cs_written = {}
    /\ db_props = [n \in CentralityNodes |-> NoProperties]

\* the handler of /centrality/all up to the write-back (server.rs 248-255)
CalculateAll ==
    /\ cs_pc = "idle"
    /\ \E pagerank \in [CentralityNodes -> PagerankScores],
          degree \in [CentralityNodes -> RawDegrees],
          betweenness \in [CentralityNodes -> BetweennessScores],
          eigenvector \in [CentralityNodes -> EigenvectorScores] :
          cs_scores' = calculate_all_centralities(pagerank, degree,
                                                  betweenness, eigenvector)
    /\ cs_remaining' = CentralityNodes
    /\ cs_pc' = "storing"
    /\ UNCHANGED <<cs_written, db_props>>
    /\ UNCHANGED notCentrality

\* one iteration of the loop of store_centrality_scores (119-146)
StoreNodeScores ==
    /\ cs_pc = "storing"
    /\ \E node_uuid \in cs_remaining :
       \E order \in IterationOrders(DOMAIN cs_scores[node_uuid]) :
       \E query_ok \in BOOLEAN :
          /\ cs_remaining' = cs_remaining \ {node_uuid}
          /\ IF query_ok
             THEN /\ db_props' = [db_props EXCEPT ![node_uuid] =
                        ExecuteSet(@, SetClauses(cs_scores[node_uuid], order))]
                  /\ cs_written' = cs_written \cup {node_uuid}
             ELSE UNCHANGED <<db_props, cs_written>>       \* warn! and go on
    /\ UNCHANGED <<cs_pc, cs_scores>>
    /\ UNCHANGED notCentrality

\* store_centrality_scores returns Ok(()) (149-150)
StoreReturn ==
    /\ cs_pc = "storing"
    /\ cs_remaining = {}
    /\ cs_pc' = "stored"
    /\ UNCHANGED <<cs_scores, cs_remaining, cs_written, db_props>>
    /\ UNCHANGED notCentrality

NextCentrality ==
    \/ CalculateAll
    \/ StoreNodeScores
    \/ StoreReturn

(***************************************************************************)
(* AccessCounter (cache.rs:153-208) on its own: new(capacity), increment   *)
(* and cleanup(max_age).  increment is called from                         *)
(* EnhancedCache::get_or_compute; cleanup has no caller in the program.    *)
(***************************************************************************)
\* the largest capacity AccessCounter::new is called with
MaxCapacity == 2

\* the number of increment calls in a behaviour
MaxIncrements == 4

\* the clock stops advancing here
MaxTime == 3

CounterKeys == {"k1", "k2", "k3"}

\* LruCache::put on a cache of the given capacity: the key becomes the most
\* recent entry; the least recent one is evicted when the capacity is exceeded
LruCachePut(capacity, lru, k, now) ==
    LET without == SelectSeq(lru, LAMBDA e : e[1] # k)
        put == Append(without, <<k, now>>)
    IN  IF Len(put) > capacity THEN Tail(put) ELSE put

AccessInit ==
    /\ ac_capacity = 0
    /\ ac_counts = <<>>
    /\ ac_lru = <<>>
    /\ ac_clock = 0
    /\ ac_increments = 0
    /\ ac_accessed = <<>>
    /\ ac_last = [op |-> "none"]

\* AccessCounter::new(capacity) (160-168)
AccessCounterNew ==
    /\ ac_capacity = 0
    /\ \E capacity \in 1..MaxCapacity : ac_capacity' = capacity
    /\ ac_last' = [op |-> "new"]
    /\ UNCHANGED <<ac_counts, ac_lru, ac_clock, ac_increments, ac_accessed>>
    /\ UNCHANGED notAccess

\* increment(key) (171-183)
AccessIncrement ==
    /\ ac_capacity > 0
    /\ ac_increments < MaxIncrements
    /\ \E key \in CounterKeys :
          /\ ac_lru' = LruCachePut(ac_capacity, ac_lru, key, ac_clock)
          /\ ac_counts' = Insert(ac_counts, key,
                                 IF key \in DOMAIN ac_counts
                                 THEN ac_counts[key] + 1 ELSE 1)
          /\ ac_accessed' = Insert(ac_accessed, key, ac_clock)
          /\ ac_last' = [op |-> "increment", key |-> key]
    /\ ac_increments' = ac_increments + 1
    /\ UNCHANGED <<ac_capacity, ac_clock>>
    /\ UNCHANGED notAccess

\* cleanup(max_age) (192-208)
AccessCleanup ==
    /\ ac_capacity > 0
    /\ \E max_age \in 0..1 :
          LET now == ac_clock
              to_remove == {ac_lru[i][1] :
                              i \in {j \in DOMAIN ac_lru :
                                        now - ac_lru[j][2] > max_age}}
          IN  /\ ac_lru' = SelectSeq(ac_lru, LAMBDA e : e[1] \notin to_remove)
              /\ ac_counts' = [k \in DOMAIN ac_counts \ to_remove |-> ac_counts[k]]
              /\ ac_last' = [op |-> "cleanup", max_age |-> max_age, now |-> now]
    /\ UNCHANGED <<ac_capacity, ac_clock, ac_increments, ac_accessed>>
    /\ UNCHANGED notAccess

\* time passes
AccessTick ==
    /\ ac_capacity > 0
    /\ ac_clock < MaxTime
    /\ ac_clock' = ac_clock + 1
    /\ UNCHANGED <<ac_capacity, ac_counts, ac_lru, ac_increments, ac_accessed,
                   ac_last>>
    /\ UNCHANGED notAccess

NextAccess ==
    \/ AccessCounterNew
    \/ AccessIncrement
    \/ AccessCleanup
    \/ AccessTick

(***************************************************************************)
(* The columnar GETs and the age of the Arrow cache (main.rs:1545-1720,    *)
(* 1758-1784, 876-883).  ArrowCache holds the bytes and the ETag of the    *)
(* nodes and of the edges and one timestamp.                               *)
(***************************************************************************)
\* bound: the seconds a behaviour lasts
MaxNow == 3

\* bound: cache_config.ttl_seconds, the CACHE_TTL_SECONDS of the deployment
TtlSeconds == 2

\* bound: how often the table of one kind changes
MaxVersions == 1

\* bound: how many columnar GETs one behaviour makes
MaxGets == 3

ArrowKinds == {"nodes", "edges"}

\* get_nodes_as_arrow / get_edges_as_arrow and record_batch_to_bytes on the
\* table of a kind at a version
ExportBytes(kind, store) == record_batch_to_bytes(kind, store[kind])

\* the ArrowCache built from both exports (main.rs:427-436, 1775-1783)
NewArrowCache(store, now) ==
    [bytes |-> [k \in ArrowKinds |-> ExportBytes(k, store)],
     etag |-> [k \in ArrowKinds |-> generate_etag(ExportBytes(k, store))],
     timestamp |-> now]

\* the update of the cache after a miss (main.rs:1599-1606, 1695-1702):
\* the bytes and the ETag of the kind, and the timestamp of the cache
UpdateArrowCache(cached, kind, bytes, now) ==
    [cached EXCEPT !.bytes[kind] = bytes,
                   !.etag[kind] = generate_etag(bytes),
                   !.timestamp = now]

NoColumnarGet ==
    [kind |-> "none", status |-> 0, cache_hit |-> FALSE, etag |-> NoneV,
     body |-> NoneV, age |-> 0]

ColumnarInit ==
    /\ col_cache = NoneV
    /\ col_store = [k \in ArrowKinds |-> 0]
    /\ col_now = 0
    /\ col_produced = [k \in ArrowKinds |-> 0]
    /\ col_gets = 0
    /\ col_last = NoColumnarGet

\* the prerender at startup and refresh_arrow_cache (main.rs:412-440,
\* 1758-1784): both kinds are exported and the cache is replaced
RefreshArrowCache ==
    /\ col_cache' = Some(NewArrowCache(col_store, col_now))
    /\ col_produced' = [k \in ArrowKinds |-> col_now]
    /\ UNCHANGED <<col_store, col_now, col_gets, col_last>>
    /\ UNCHANGED notColumnar

\* clear_cache (main.rs:876-883)
ClearArrowCache ==
    /\ col_cache # NoneV
    /\ col_cache' = NoneV
    /\ UNCHANGED <<col_store, col_now, col_produced, col_gets, col_last>>
    /\ UNCHANGED notColumnar

\* a second passes
ColumnarTick ==
    /\ col_now < MaxNow
    /\ col_now' = col_now + 1
    /\ UNCHANGED <<col_cache, col_store, col_produced, col_gets, col_last>>
    /\ UNCHANGED notColumnar

\* the table of a kind changes in the store
ColumnarStoreChange ==
    /\ \E kind \in ArrowKinds :
        /\ col_store[kind] < MaxVersions
        /\ col_store' = [col_store EXCEPT ![kind] = @ + 1]
    /\ UNCHANGED <<col_cache, col_now, col_produced, col_gets, col_last>>
    /\ UNCHANGED notColumnar

\* get_nodes_arrow (main.rs:1545-1640) and get_edges_arrow (1641-1736) with
\* the cache enabled and no force_fresh.  The request carries no
\* If-None-Match or the ETag of the bytes of the kind at some version.
\* age is the time since the cached bytes of the kind were made.
ColumnarGet ==
    /\ col_gets < MaxGets
    /\ col_gets' = col_gets + 1
    /\ \E kind \in ArrowKinds :
       \E if_none_match \in {NoneV} \cup
              {Some(generate_etag(record_batch_to_bytes(kind, v))) :
                  v \in 0..MaxVersions} :
        IF col_cache # NoneV /\ if_none_match = Some(col_cache[1].etag[kind])
        THEN \* 304 Not Modified with the cached ETag
             /\ col_last' = [kind |-> kind, status |-> 304, cache_hit |-> TRUE,
                             etag |-> Some(col_cache[1].etag[kind]),
                             body |-> NoneV,
                             age |-> col_now - col_produced[kind]]
             /\ UNCHANGED <<col_cache, col_produced>>
        ELSE IF /\ col_cache # NoneV
                /\ col_now - col_cache[1].timestamp < TtlSeconds
        THEN \* 200 with X-Cache-Hit: true and the cached bytes
             /\ col_last' = [kind |-> kind, status |-> 200, cache_hit |-> TRUE,
                             etag |-> Some(col_cache[1].etag[kind]),
                             body |-> Some(col_cache[1].bytes[kind]),
                             age |-> col_now - col_produced[kind]]
             /\ UNCHANGED <<col_cache, col_produced>>
        ELSE \* 200 with X-Cache-Hit: false and a fresh export; the cache
             \* is updated only if there is one
             /\ col_last' = [kind |-> kind, status |-> 200, cache_hit |-> FALSE,
                             etag |-> Some(generate_etag(ExportBytes(kind, col_store))),
                             body |-> Some(ExportBytes(kind, col_store)),
                             age |-> 0]
             /\ col_cache' = IF col_cache # NoneV
                             THEN Some(UpdateArrowCache(col_cache[1], kind,
                                           ExportBytes(kind, col_store), col_now))
                             ELSE NoneV
             /\ col_produced' = IF col_cache # NoneV
                                THEN [col_produced EXCEPT ![kind] = col_now]
                                ELSE col_produced
    /\ UNCHANGED <<col_store, col_now>>
    /\ UNCHANGED notColumnar

NextColumnar ==
    \/ RefreshArrowCache
    \/ ClearArrowCache
    \/ ColumnarTick
    \/ ColumnarStoreChange
    \/ ColumnarGet

RestInit ==
    /\ RefreshInit /\ CancelInit /\ LagInit /\ CallsInit /\ FeedbackInit
    /\ CentralityInit /\ AccessInit /\ ColumnarInit

(***************************************************************************)
(* Specifications                                                          *)
(***************************************************************************)
InitDelta ==
    TrackerInit /\ CoalescerInit /\ CacheInitEmpty /\ StoreInit /\ AppStateInit
        /\ ExportInit /\ SearchInit /\ RestInit

SpecDelta == InitDelta /\ [][NextDelta]_vars

SpecTracker == InitDelta /\ [][NextTracker]_vars

SpecHistory == InitDelta /\ [][NextHistory]_vars

SpecVersions == InitDelta /\ [][NextVersions]_vars

SpecLong == InitDelta /\ [][NextLong]_vars

InitCoalescer ==
    TrackerInit /\ CoalescerInit /\ CacheInitEmpty /\ StoreInit /\ AppStateInit
        /\ ExportInit /\ SearchInit /\ RestInit

SpecCoalescer == InitCoalescer /\ [][NextCoalescer]_vars

InitCache ==
    TrackerInit /\ CoalescerInit /\ CacheInit /\ StoreInit /\ AppStateInit
        /\ ExportInit /\ SearchInit /\ RestInit

SpecCache == InitCache /\ [][NextCache]_vars

InitStore ==
    TrackerInit /\ CoalescerInit /\ CacheInitEmpty /\ StoreInit /\ AppStateInit
        /\ ExportInit /\ SearchInit /\ RestInit

SpecStore == InitStore /\ [][NextStore]_vars

InitServer ==
    TrackerInit /\ CoalescerInit /\ CacheInitEmpty /\ StoreInit /\ AppStateInit
        /\ ExportInit /\ SearchInit /\ RestInit

SpecServer == InitServer /\ [][NextServer]_vars

InitSocket ==
    TrackerInit /\ CoalescerInit /\ CacheInitEmpty /\ StoreInit /\ AppStateInit
        /\ ExportInit /\ SearchInit /\ RestInit

SpecSocket == InitSocket /\ [][NextSocket]_vars

InitArrow ==
    TrackerInit /\ CoalescerInit /\ CacheInitEmpty /\ StoreInit /\ AppStateInit
        /\ ExportInit /\ SearchInit /\ RestInit

SpecArrow == InitArrow /\ [][NextArrow]_vars

InitExport ==
    TrackerInit /\ CoalescerInit /\ CacheInitEmpty /\ StoreInit /\ AppStateInit
        /\ ExportInit /\ SearchInit /\ RestInit

SpecExport == InitExport /\ [][NextExport]_vars

InitSearch ==
    TrackerInit /\ CoalescerInit /\ CacheInitEmpty /\ StoreInit /\ AppStateInit
        /\ ExportInit /\ SearchInit /\ RestInit

SpecSearch == InitSearch /\ [][NextSearch]_vars

InitRefresh ==
    TrackerInit /\ CoalescerInit /\ CacheInitEmpty /\ StoreInit /\ AppStateInit
        /\ ExportInit /\ SearchInit /\ RestInit

SpecRefresh == InitRefresh /\ [][NextRefresh]_vars

InitCancel ==
    TrackerInit /\ CoalescerInit /\ CacheInitEmpty /\ StoreInit /\ AppStateInit
        /\ ExportInit /\ SearchInit /\ RestInit

SpecCancel == InitCancel /\ [][NextCancel]_vars

InitLag ==
    TrackerInit /\ CoalescerInit /\ CacheInitEmpty /\ StoreInit /\ AppStateInit
        /\ ExportInit /\ SearchInit /\ RestInit

SpecLag == InitLag /\ [][NextLag]_vars

InitRrf ==
    TrackerInit /\ CoalescerInit /\ CacheInitEmpty /\ StoreInit /\ AppStateInit
        /\ ExportInit /\ SearchInit /\ RestInit

SpecRrf == InitRrf /\ [][NextRrf]_vars

InitParse ==
    TrackerInit /\ CoalescerInit /\ CacheInitEmpty /\ StoreInit /\ AppStateInit
        /\ ExportInit /\ SearchInit /\ RestInit

SpecParse == InitParse /\ [][NextParse]_vars

InitFeedback ==
    TrackerInit /\ CoalescerInit /\ CacheInitEmpty /\ StoreInit /\ AppStateInit
        /\ ExportInit /\ SearchInit /\ RestInit

InitBfs ==
    TrackerInit /\ CoalescerInit /\ CacheInitEmpty /\ StoreInit /\ AppStateInit
        /\ ExportInit /\ SearchInit /\ RestInit

SpecBfs == InitBfs /\ [][NextBfs]_vars

SpecFeedback == InitFeedback /\ [][NextFeedback]_vars

InitAccess ==
    TrackerInit /\ CoalescerInit /\ CacheInitEmpty /\ StoreInit /\ AppStateInit
        /\ ExportInit /\ SearchInit /\ RestInit

SpecAccess == InitAccess /\ [][NextAccess]_vars

InitCentrality ==
    TrackerInit /\ CoalescerInit /\ CacheInitEmpty /\ StoreInit /\ AppStateInit
        /\ ExportInit /\ SearchInit /\ RestInit

SpecCentrality == InitCentrality /\ [][NextCentrality]_vars

InitColumnar ==
    TrackerInit /\ CoalescerInit /\ CacheInitEmpty /\ StoreInit /\ AppStateInit
        /\ ExportInit /\ SearchInit /\ RestInit

SpecColumnar == InitColumnar /\ [][NextColumnar]_vars

(***************************************************************************)
(* Claims                                                                  *)
(***************************************************************************)
\* C1: among the callers that invoke get_or_compute(k, compute) while no
\* result for k is available yet, exactly one caller's compute is invoked
\* and every caller returns the value of that single computation.
C1_SingleComputePerKey ==
    \A k \in Keys :
        LET E == {c \in Callers : ckey[c] = k /\ early[c]}
        IN  /\ Cardinality({c \in E : cvalue[c] # NoneV}) <= 1
            /\ \A c1 \in E : \A c2 \in E :
                  (pc[c1] = "done" /\ pc[c2] = "done") => cret[c1] = cret[c2]

\* C2: get_or_compute(k, compute) for a key never requested before, with no
\* KV entry for k and compute returning Some(v): compute is invoked, the
\* call returns Some(v), k is marked in the negative-existence filter and v
\* is written to the KV store.
C2_FreshKeyIsComputedAndStored ==
    ( /\ last_call.key # None
      /\ last_call.fresh
      /\ last_call.kv_before = None
      /\ last_call.outcome \in {"some_v1", "some_v2"} )
    => /\ last_call.compute_invoked
       /\ last_call.result = Some(OutcomeValue(last_call.outcome))
       /\ might_exist(bloom_bits, last_call.key)
       /\ kv[last_call.key] = OutcomeValue(last_call.outcome)

\* C3: the sequence numbers returned by compute_delta start at 1, never
\* repeat and never regress, across compute_delta, reset and
\* get_changes_since.
C3_SequenceStartsAtOneAndIncreases ==
    /\ (Len(returned_seqs) > 0 => returned_seqs[1] = 1)
    /\ \A i \in 1..Len(returned_seqs) : \A j \in 1..Len(returned_seqs) :
          i < j => returned_seqs[i] < returned_seqs[j]

\* the last store operation was a process_updates call that returned Err
IsDeltaMessage(m) == m.type = "graph:delta"

\* C4: the graph:delta messages a delta-subscribed WebSocket client receives
\* carry sequence numbers that are at least 1 and strictly increasing in the
\* order of reception, whatever handler published them.
C4_DeltasInSequenceOrder ==
    LET d == SelectSeq(ws_out, IsDeltaMessage)
    IN  \A i \in DOMAIN d :
            /\ d[i].sequence >= 1
            /\ \A j \in DOMAIN d : i < j => d[i].sequence < d[j].sequence

\* C5: every change of the view store by a drain (worker or HTTP handler) or
\* by a reconciler reload yields exactly one delta computed by the delta
\* tracker, kept in its history and published on the delta stream: once no
\* handler is between its drain and its answer, the tracker's history holds
\* the initial delta plus one delta per change, and the deltas published are
\* exactly those.
C5_EveryStoreChangeHasOneDelta ==
    (started /\ hpc = "idle") =>
        /\ Len(delta_history) = 1 + store_changes
        /\ Len(deltas_sent) = store_changes
        /\ \A i \in DOMAIN deltas_sent : deltas_sent[i] = delta_history[i + 1]

DrainFailed == last_op.op = "process_updates" /\ last_op.result = "err"

\* the edges waiting in a queue: in edges_to_add or buffered in pending_edges
QueuedEdges(q) ==
    Range(q.edges_to_add) \cup {q.pending_edges[i].edge : i \in 1..Len(q.pending_edges)}

\* C6: if process_updates fails at any step of a drain tick, the nodes and
\* edges tables are exactly as they were before the call.
C6_FailedDrainLeavesTables ==
    DrainFailed => (nodes = before.nodes /\ edges = before.edges)

\* C6 witness: a drain that failed after its transaction had already changed
\* a table.
C6_FailedAfterWrites == DrainFailed /\ last_op.wrote

\* C7: if process_updates fails, every work item that was queued when the
\* call started (nodes to add or update, edges to add, pending edges,
\* deletions) is still queued afterwards.
C7_FailedDrainKeepsQueue ==
    DrainFailed =>
        /\ Range(before.q.nodes_to_add) \subseteq Range(update_queue.nodes_to_add)
        /\ \A i \in DOMAIN before.q.nodes_to_update :
              /\ i \in DOMAIN update_queue.nodes_to_update
              /\ update_queue.nodes_to_update[i] = before.q.nodes_to_update[i]
        /\ QueuedEdges(before.q) \subseteq QueuedEdges(update_queue)
        /\ Range(before.q.nodes_to_delete) \subseteq Range(update_queue.nodes_to_delete)
        /\ Range(before.q.edges_to_delete) \subseteq Range(update_queue.edges_to_delete)

\* C8: after a successful drain that changed the view store, by the worker
\* or by an HTTP update handler in any interleaving, the Arrow cache has been
\* wiped: outside the step between a handler's drain and its wipe, the cache
\* is empty or holds the export of the current tables, so no columnar GET is
\* answered from a payload that predates the change.
C8_ChangedDrainWipesArrowCache ==
    (started /\ hpc # "respond") =>
        \/ arrow_cache = NoneV
        \/ arrow_cache[1] = ArrowPayload(nodes, edges)

\* C9: an edge that waits for its endpoints is neither inserted nor lost:
\* after any drain tick, every edge that was queued or pending before the
\* tick and was not due to be dropped for its retry count or age is either
\* reported in the tick's update (it was inserted) or is still pending.
C9_OrphanEdgeKeptUntilInserted ==
    last_op.op = "process_updates" =>
        LET due == {before.q.pending_edges[i].edge :
                        i \in {j \in 1..Len(before.q.pending_edges) :
                                 \/ before.q.pending_edges[j].retry_count >= max_retries
                                 \/ before.now - before.q.pending_edges[j].first_seen
                                        > stale_threshold}}
            reported == IF last_op.update.edges = NoneV THEN {}
                        ELSE Range(last_op.update.edges[1])
        IN  \A e \in QueuedEdges(before.q) \ due :
                e \in reported \/ e \in QueuedEdges(update_queue)

\* C10: in every committed state of the view store the N nodes carry exactly
\* the indices 0..N-1 (identifiers are the table's primary key).
C10_IndicesAreDense ==
    {nodes[i].idx : i \in DOMAIN nodes} = 0..(Cardinality(DOMAIN nodes) - 1)

\* the ids a successful drain reports as deleted nodes
DrainDeletedNodes ==
    IF last_op.op = "process_updates" /\ last_op.result = "some"
          /\ last_op.update.deleted_nodes # NoneV
    THEN Range(last_op.update.deleted_nodes[1])
    ELSE {}

\* the node ids the rows of an edges table refer to
EdgeEndpoints(tbl_edges) ==
    {tbl_edges[i].source : i \in DOMAIN tbl_edges}
        \cup {tbl_edges[i].target : i \in DOMAIN tbl_edges}

\* C11: a drained node deletion deletes every edge that has the node as its
\* source or target, and in every committed state reached by loads and
\* drains each row of the edges table has its source and its target in the
\* nodes table.
C11_NodeDeletionCascades ==
    /\ DrainDeletedNodes \cap EdgeEndpoints(edges) = {}
    /\ EdgeEndpoints(edges) \subseteq DOMAIN nodes

\* a drain deleted a node that edges of the table referred to
C11_DeletedNodeHadEdges ==
    /\ DrainDeletedNodes \cap EdgeEndpoints(before.edges) # {}
    /\ edges # <<>>

\* a step of the last reconciler tick, which was not the first one, failed:
\* a count query, the fetch of the graph or the replacement of the view store
TickFailed ==
    /\ last_tick.seen = 2
    /\ \/ last_tick.poll_failed
       \/ last_tick.triggered /\ ~last_tick.reloaded

\* C12: when a step of a reconciler tick fails (polling, fetching the graph
\* or replacing the view store) the last observed (node_count, edge_count)
\* pair is what it was before the tick, so that the next tick sees the
\* same divergence again.
C12_FailedReloadKeepsCounts ==
    TickFailed => <<last_node_count, last_edge_count>> = last_tick.prev

\* C13: on every reconciler tick other than the first, a polled
\* (node_count, edge_count) pair that differs from the pair of the previous
\* tick triggers a reload, whatever the counts are.
C13_DivergenceTriggersReload ==
    (last_tick.seen = 2 /\ last_tick.polled # last_tick.prev)
        => last_tick.triggered

\* C14: a columnar GET that repeats, within the TTL and with the store
\* unchanged, the ETag E of the body the previous GET returned is answered
\* 304 with E echoed back and an empty body.
C14_RepeatedGetIsNotModified ==
    last_get.repeat =>
        /\ last_get.status = 304
        /\ last_get.etag = last_get.sent
        /\ last_get.body = NoneV

\* C15: two successive exports of an unchanged store (get_nodes_as_arrow or
\* get_edges_as_arrow, then record_batch_to_bytes and generate_etag) give
\* the same bytes and so the same ETag.
C15_ExportIsDeterministic == last_export.first = last_export.second

\* C16: a get_or_compute call whose compute function returns an error, for
\* a key without a KV entry, returns that error to the caller (not Ok(None)
\* or an empty value) and writes nothing to the KV store or to the
\* negative-existence filter.
C16_ComputeErrorIsSurfaced ==
    (last_call.key # None /\ last_call.outcome = "err"
        /\ last_call.kv_before = None)
    =>  /\ last_call.is_err
        /\ kv[last_call.key] = None
        /\ bloom_bits = last_call.bloom_before

\* C17: with warm = 10 and hot = 100, calculate_ttl(c) is 60 for c <= 10,
\* 300 for 10 < c <= 100 and 1800 for c > 100, and the n-th access of a key
\* by get_or_compute uses the TTL calculate_ttl(n): the first access of a
\* key, whose value is computed and stored, is stored with TTL 60.
C17_TtlFollowsAccessCount ==
    /\ \A c \in 0..MaxAccessCount :
          calculate_ttl(c) = IF c <= 10 THEN 60 ELSE IF c <= 100 THEN 300 ELSE 1800
    /\ (last_call.key # None /\ last_call.fresh
           /\ last_call.outcome \in {"some_v1", "some_v2"}
           /\ last_call.kv_before = None /\ last_call.redis_up)
        => last_call.ttl = calculate_ttl(1)

\* the store calls of the methods of the last node search and of the last
\* edge search, in the order of search_methods; a method that the engine
\* skips (Similarity without a query vector) makes no call, and the edge
\* similarity search answers with no rows
NotCalled == [called |-> FALSE, failed |-> FALSE, rows |-> <<>>]

Called(answer) == [called |-> TRUE, failed |-> answer.failed, rows |-> answer.rows]

NodeMethodAnswers ==
    LET c == last_search.request.config.node_config[1]
    IN  [i \in DOMAIN c.search_methods |->
            IF c.search_methods[i] = "Fulltext" THEN Called(last_search.store.ft_nodes)
            ELSE IF c.search_methods[i] = "Similarity"
                    /\ last_search.request.query_vector # NoneV
                 THEN Called(last_search.store.sim_nodes)
                 ELSE NotCalled]

EdgeMethodAnswers ==
    LET c == last_search.request.config.edge_config[1]
    IN  [i \in DOMAIN c.search_methods |->
            IF c.search_methods[i] = "Fulltext" THEN Called(last_search.store.ft_edges)
            ELSE IF c.search_methods[i] = "Similarity"
                    /\ last_search.request.query_vector # NoneV
                 THEN Called(NoAnswer)
                 ELSE NotCalled]

CalledMethods(answers) == {i \in DOMAIN answers : answers[i].called}

FailedMethods(answers) == {i \in DOMAIN answers : answers[i].called /\ answers[i].failed}

\* the rows of the methods that did not fail, in the order of the methods
SucceededLists(answers) ==
    LET idx == SelectSeq([i \in DOMAIN answers |-> i], LAMBDA i : ~answers[i].failed)
    IN  [j \in DOMAIN idx |-> Take(answers[idx[j]].rows, MethodLimit)]

\* the methods of the last search of a kind were run: the kind is enabled,
\* the KV store had no entry and the pool gave a connection
MethodsRan(kind) == last_search.searched /\ kind.ran /\ ~kind.hit /\ last_search.store.conn_ok

\* one method failed and another one succeeded
SomeMethodFailed(answers) ==
    FailedMethods(answers) # {} /\ FailedMethods(answers) # CalledMethods(answers)

AllMethodsFailed(answers) ==
    CalledMethods(answers) # {} /\ FailedMethods(answers) = CalledMethods(answers)

\* C18: in search_nodes and search_edges, when a method fails and another
\* one succeeds, the result is the reranked lists of the methods that
\* succeeded; the result is an error exactly when every method fails.
C18_FailedMethodIsOmitted ==
    /\ MethodsRan(last_search.nodes) =>
          LET a == NodeMethodAnswers
              c == last_search.request.config.node_config[1]
              r == last_search.nodes.result
          IN  /\ SomeMethodFailed(a)
                    => /\ ~r.is_err
                       /\ r.value \in rerank_nodes(SucceededLists(a), c.reranker,
                                         last_search.request.query_vector, c.mmr_lambda)
              /\ r.is_err <=> AllMethodsFailed(a)
    /\ MethodsRan(last_search.edges) =>
          LET a == EdgeMethodAnswers
              c == last_search.request.config.edge_config[1]
              r == last_search.edges.result
          IN  /\ SomeMethodFailed(a)
                    => /\ ~r.is_err
                       /\ r.value \in rerank_edges(SucceededLists(a), c.reranker,
                                         last_search.request.query_vector, c.mmr_lambda)
              /\ r.is_err <=> AllMethodsFailed(a)

\* a result kind of the last search was answered from the KV store
ServedFromCache(kind) == kind.ran /\ kind.hit

\* C19: two search requests of the same kind that differ in their filters
\* or in their limit have different cache keys: a result kind that is
\* answered from the KV store is answered with the result of a request
\* with the same filters and the same limit.
C19_CacheKeySeparatesFiltersAndLimit ==
    last_search.searched =>
    \A kind \in {last_search.edges, last_search.nodes, last_search.episodes} :
        ServedFromCache(kind)
        =>  /\ kv_origin[kind.key].filters = last_search.request.filters
            /\ kv_origin[kind.key].limit = last_search.request.limit

\* C20: every list of a search response has at most as many items as the
\* limit of the request.
C20_ResultsWithinLimit ==
    (last_search.searched /\ ~last_search.response.is_err)
    =>  \A kind \in {"edges", "nodes", "episodes", "communities"} :
            Len(last_search.response.value[kind]) <= last_search.request.limit

\* ---- C21 ----
\* the state of the view store a reader can have seen
PairIsExportOf(t, nodes_batch, edges_batch) ==
    /\ nodes_batch \in get_nodes_as_arrow(t.nodes)
    /\ edges_batch \in get_edges_as_arrow(t.nodes, t.edges)

\* C21: the nodes+edges pair that refresh_arrow_cache assembles is the
\* export of one state of the view store, the state at its first read or the
\* state at its second read, never nodes of the one with edges of the other.
C21_RefreshPairIsOneSnapshot ==
    (last_refresh.done /\ last_refresh.status = 200) =>
        \/ PairIsExportOf(last_refresh.first, last_refresh.nodes_batch,
                          last_refresh.edges_batch)
        \/ PairIsExportOf(last_refresh.second, last_refresh.nodes_batch,
                          last_refresh.edges_batch)

\* ---- C22 ----
\* the waiters of the cancelled caller that invoked compute themselves
WaitersThatComputed == {w \in cancelled_at.waiters : cvalue[w] # NoneV}

\* C22: when the caller computing key k is cancelled while other callers
\* wait on k, one of the waiters continues the computation and the others
\* obtain its result: at most one of the waiters invokes compute.
C22_OneWaiterContinues ==
    cancelled_at.cancelled => Cardinality(WaitersThatComputed) <= 1

\* ---- C23 ----
\* C23: a subscriber whose receiver skipped overwritten updates has been
\* sent a lagged indication on its socket.
C23_LaggedSubscriberIsTold ==
    bc_skipped > 0 => "lagged" \in ws_types

\* ---- C24 ----
\* the identifiers of the nodes and the keys of the edges handed to the
\* last compute_delta call
NewNodeIds ==
    {last_compute.new_nodes[i].id : i \in DOMAIN last_compute.new_nodes}

NewEdgeKeys ==
    {<<last_compute.new_edges[i].from, last_compute.new_edges[i].to>> :
        i \in DOMAIN last_compute.new_edges}

\* the snapshot stored by the last call holds, for every identifier of the
\* new data and for no other, a value of the new data
SnapshotIsNew ==
    /\ DOMAIN last_compute.stored_nodes = NewNodeIds
    /\ \A id \in NewNodeIds :
          /\ last_compute.stored_nodes[id] \in Range(last_compute.new_nodes)
          /\ last_compute.stored_nodes[id].id = id
    /\ DOMAIN last_compute.stored_edges = NewEdgeKeys
    /\ \A k \in NewEdgeKeys :
          /\ last_compute.stored_edges[k] \in Range(last_compute.new_edges)
          /\ <<last_compute.stored_edges[k].from, last_compute.stored_edges[k].to>> = k

\* added, removed and updated partition the identifiers as the claim says
DeltaPartitions ==
    LET c == last_compute
        d == last_compute.delta
    IN  /\ d.nodes_added =
              {c.stored_nodes[id] : id \in NewNodeIds \ DOMAIN c.old_nodes}
        /\ d.nodes_removed = DOMAIN c.old_nodes \ NewNodeIds
        /\ d.nodes_updated =
              {c.stored_nodes[id] : id \in
                  {i \in NewNodeIds \cap DOMAIN c.old_nodes :
                      ~nodes_equal(c.old_nodes[i], c.stored_nodes[i])}}
        /\ d.edges_added =
              {c.stored_edges[k] : k \in NewEdgeKeys \ DOMAIN c.old_edges}
        /\ d.edges_removed = DOMAIN c.old_edges \ NewEdgeKeys
        /\ d.edges_updated =
              {c.stored_edges[k] : k \in
                  {i \in NewEdgeKeys \cap DOMAIN c.old_edges :
                      ~edges_equal(c.old_edges[i], c.stored_edges[i])}}

Values(f) == {f[x] : x \in DOMAIN f}

NoChanges(d) ==
    /\ d.nodes_added = {} /\ d.nodes_updated = {} /\ d.nodes_removed = {}
    /\ d.edges_added = {} /\ d.edges_updated = {} /\ d.edges_removed = {}

\* C24: compute_delta(new) reports as added the identifiers of new that are
\* not stored, as removed the stored ones that are not in new, as updated
\* the common ones whose values are not equal under nodes_equal /
\* edges_equal, and stores new; the first call on an empty tracker is
\* "initial" with sequence 1 and everything added, and a call with the data
\* already stored is "update" with empty lists.
C24_DeltaPartitionsAndStores ==
    last_compute.called =>
        /\ DeltaPartitions
        /\ SnapshotIsNew
        /\ last_compute.old_sequence = 0 =>
              /\ last_compute.delta.operation = "initial"
              /\ last_compute.delta.sequence = 1
              /\ last_compute.delta.nodes_added = Values(last_compute.stored_nodes)
              /\ last_compute.delta.edges_added = Values(last_compute.stored_edges)
              /\ last_compute.delta.nodes_updated = {}
              /\ last_compute.delta.nodes_removed = {}
              /\ last_compute.delta.edges_updated = {}
              /\ last_compute.delta.edges_removed = {}
        /\ (/\ last_compute.old_sequence >= 1
            /\ last_compute.old_nodes = last_compute.stored_nodes
            /\ last_compute.old_edges = last_compute.stored_edges) =>
              /\ last_compute.delta.operation = "update"
              /\ NoChanges(last_compute.delta)

\* a call that reports an updated and a removed node and an added edge
C24_CallWithUpdatedRemovedAdded ==
    /\ last_compute.called
    /\ last_compute.delta.operation = "update"
    /\ last_compute.delta.nodes_updated # {}
    /\ last_compute.delta.nodes_removed # {}
    /\ last_compute.delta.edges_added # {}

\* ---- C25 ----
\* C25: two edges of the new data between the same source and target that
\* differ in type, none of them stored before, are both reported in
\* edges_added and both kept in the stored snapshot.
C25_EdgesOfDifferentTypeAreDistinct ==
    last_compute.called =>
        \A i \in DOMAIN last_compute.new_edges :
        \A j \in DOMAIN last_compute.new_edges :
            LET e1 == last_compute.new_edges[i]
                e2 == last_compute.new_edges[j]
            IN  (/\ e1.from = e2.from
                 /\ e1.to = e2.to
                 /\ e1.edge_type # e2.edge_type
                 /\ <<e1.from, e1.to>> \notin DOMAIN last_compute.old_edges) =>
                    /\ {e1, e2} \subseteq last_compute.delta.edges_added
                    /\ {e1, e2} \subseteq Values(last_compute.stored_edges)

\* ---- C26 ----
\* the deltas of the history the last get_changes_since call was asked about
\* that are newer than since_sequence
NewerDeltas ==
    {d \in Range(last_query.history) : d.sequence > last_query.since_sequence}

\* C26: get_changes_since(seq, limit) returns deltas of the history with a
\* sequence greater than seq, in ascending sequence order, the first limit
\* of them and all of them if they are fewer, and leaves the tracker as it
\* was.
C26_ChangesSinceAreTheNewerDeltas ==
    last_query.asked =>
        /\ Range(last_changes) \subseteq NewerDeltas
        /\ \A i \in DOMAIN last_changes : \A j \in DOMAIN last_changes :
              i < j => last_changes[i].sequence < last_changes[j].sequence
        /\ Len(last_changes) = Min({last_query.limit, Cardinality(NewerDeltas)})
        /\ \A d \in NewerDeltas \ Range(last_changes) :
              \A i \in DOMAIN last_changes : last_changes[i].sequence < d.sequence
        /\ last_query.tracker_kept

\* a call that filters out an older delta and truncates the newer ones
C26_FilteredAndTruncated ==
    /\ last_query.asked
    /\ last_query.since_sequence = 1
    /\ Len(last_query.history) > 1
    /\ Cardinality(NewerDeltas) > last_query.limit
    /\ last_query.limit = 1

\* ---- C27 ----
\* the change lists of an update
ChangeLists(update) ==
    {update.nodes, update.edges, update.deleted_nodes, update.deleted_edges}

\* C27: a drain returns an update, which the worker broadcasts, exactly when
\* it changed the nodes or the edges table, and every update it returns has
\* a non-empty change list.
C27_UpdateIffStoreChanged ==
    (last_op.op = "process_updates" /\ last_op.result # "err") =>
        /\ (last_op.result = "some") <=>
              (nodes # before.nodes \/ edges # before.edges)
        /\ last_op.result = "some" =>
              \E l \in ChangeLists(last_op.update) : l # NoneV /\ l[1] # <<>>

\* ---- C28 ----
\* the place of the first appearance of an item in the input lists, taken
\* in order
FirstAppearance(ranked_lists, id) ==
    Min({i \in DOMAIN Flatten(ranked_lists) : Flatten(ranked_lists)[i] = id})

\* every distinct item of the input exactly once
RrfEveryItemOnce ==
    /\ Range(last_rrf.result) = Range(Flatten(last_rrf.ranked_lists))
    /\ Len(last_rrf.result) = Cardinality(Range(last_rrf.result))

\* C28: reciprocal_rank_fusion returns every distinct item once, by
\* descending fused score, items of equal score in the order of their first
\* appearance in the input.
C28_RrfOrderIsDetermined ==
    last_rrf.called =>
        /\ RrfEveryItemOnce
        /\ \A i \in DOMAIN last_rrf.result : \A j \in DOMAIN last_rrf.result :
              i < j =>
                LET si == RrfScore(last_rrf.ranked_lists, last_rrf.result[i])
                    sj == RrfScore(last_rrf.ranked_lists, last_rrf.result[j])
                IN  \/ si > sj
                    \/ /\ si = sj
                       /\ FirstAppearance(last_rrf.ranked_lists, last_rrf.result[i])
                            < FirstAppearance(last_rrf.ranked_lists,
                                              last_rrf.result[j])

\* ---- C29 ----
\* the node records of the parsed result set, in order
ParsedRecords ==
    SelectSeq(Flatten(last_parse.result), LAMBDA v : v.kind = "Node")

\* a record without the identifier property
LacksId(v) == "uuid" \notin DOMAIN v.properties

\* a record that parse_single_node_v2 accepts
WellFormed(v) == ~parse_single_node_v2(v).is_err

\* C29: when some records of a result set lack the identifier and the
\* others are well-formed, the parse succeeds and returns exactly the
\* well-formed records.
C29_RecordWithoutIdIsDropped ==
    (/\ last_parse.called
     /\ \E i \in DOMAIN ParsedRecords : LacksId(ParsedRecords[i])
     /\ \A i \in DOMAIN ParsedRecords :
           LacksId(ParsedRecords[i]) \/ WellFormed(ParsedRecords[i])) =>
        /\ ~last_parse.parsed.is_err
        /\ Len(last_parse.parsed.value) =
              Cardinality({i \in DOMAIN ParsedRecords : WellFormed(ParsedRecords[i])})

C31_WrittenScoresAreReadBack ==
    cs_pc = "stored" =>
        \A n \in cs_written :
            \A name \in {"pagerank", "degree", "betweenness", "importance"} :
                db_props[n][property_name(name)] = Some(cs_scores[n][name])


\* the nodes reached from start by a path of at most k edges
RECURSIVE WithinHops(_, _, _)
WithinHops(adjacency_list, start_node, k) ==
    IF k = 0 THEN {start_node}
    ELSE LET before_k == WithinHops(adjacency_list, start_node, k - 1)
         IN  before_k \cup
                UNION {Range(adjacency_list[n]) :
                          n \in before_k \cap DOMAIN adjacency_list}

\* C32: calculate_shortest_paths returns a map whose keys are the nodes
\* reachable from start and whose value for a node is the least number of
\* edges of a path from start to it, 0 for start.
C32_DistancesAreMinimumHops ==
    last_bfs.called =>
        LET adj == last_bfs.adjacency_list
            start == last_bfs.start_node
            far == Cardinality(BfsNodes)
        IN  /\ DOMAIN last_bfs.distances = WithinHops(adj, start, far)
            /\ last_bfs.distances[start] = 0
            /\ \A n \in DOMAIN last_bfs.distances :
                  /\ n \in WithinHops(adj, start, last_bfs.distances[n])
                  /\ \A k \in 0..far :
                        n \in WithinHops(adj, start, k)
                            => last_bfs.distances[n] <= k

\* a call on a graph with a cycle through start in which C, which has no
\* key, is a neighbour of start and of B, itself a neighbour of start
C32_NodeOnTwoPaths ==
    /\ last_bfs.called
    /\ last_bfs.start_node = "A"
    /\ last_bfs.adjacency_list = [A |-> <<"B", "C">>, B |-> <<"C", "A">>]
    /\ last_bfs.distances = [A |-> 0, B |-> 1, C |-> 1]


\* the pending edges of a tick's start whose endpoints are not both in the
\* nodes table when the tick has ended and whose age is within the limit
OrphansOfTick ==
    {p \in Range(before.q.pending_edges) :
        /\ \/ IdxOf(nodes, p.edge.from) = NoneV
           \/ IdxOf(nodes, p.edge.to) = NoneV
        /\ before.now - p.first_seen <= stale_threshold}

\* how many entries of a vector equal x
CountOf(vec, x) == Cardinality({i \in DOMAIN vec : vec[i] = x})

\* a tick that succeeded has moved every orphan below 10 retries one retry
\* up and has removed those at 10: the entries at 10 are those that were at 9
OrphansAdvanced ==
    \A p \in OrphansOfTick :
        IF p.retry_count >= max_retries
        THEN CountOf(update_queue.pending_edges, p)
                = CountOf(before.q.pending_edges,
                          [p EXCEPT !.retry_count = @ - 1])
        ELSE CountOf(update_queue.pending_edges,
                     [p EXCEPT !.retry_count = @ + 1])
                >= CountOf(before.q.pending_edges, p)

\* C33: no pending edge has a retry_count above 10; after a drain tick that
\* succeeded, every orphan edge that was pending with a retry_count below 10
\* is pending with its retry_count one higher and every orphan whose
\* retry_count had reached 10 is no longer pending; after a tick that
\* failed, every orphan with a retry_count below 10 is still pending.
C33_OrphanRetriedUntilTenth ==
    /\ \A p \in Range(update_queue.pending_edges) : p.retry_count <= max_retries
    /\ last_op.op = "process_updates" =>
          IF last_op.result = "err"
          THEN \A p \in OrphansOfTick :
                  p.retry_count < max_retries =>
                      \E r \in Range(update_queue.pending_edges) : r.edge = p.edge
          ELSE OrphansAdvanced


VolatileProperties == {"created_at", "degree_centrality", "pagerank_centrality",
                       "betweenness_centrality", "eigenvector_centrality"}

\* two versions of a node differ in label, node_type, summary or in a
\* property that is not volatile: a key one has and the other lacks, or a
\* key with two values
DiffersMeaningfully(old, new) ==
    \/ old.label # new.label
    \/ old.node_type # new.node_type
    \/ old.summary # new.summary
    \/ \E key \in (DOMAIN old.properties \cup DOMAIN new.properties)
                     \ VolatileProperties :
          \/ key \notin DOMAIN old.properties
          \/ key \notin DOMAIN new.properties
          \/ old.properties[key] # new.properties[key]

\* C34: compute_delta reports a node of both snapshots in nodes_updated
\* exactly when its two versions differ in label, node_type, summary or in
\* a property other than the volatile ones.
C34_UpdatedIffMeaningfulDifference ==
    last_compute.called =>
        \A id \in NewNodeIds \cap DOMAIN last_compute.old_nodes :
            (last_compute.stored_nodes[id] \in last_compute.delta.nodes_updated)
                <=> DiffersMeaningfully(last_compute.old_nodes[id],
                                        last_compute.stored_nodes[id])

\* a call whose version of node a differs from the stored one in
\* degree_centrality only, and reports nothing
C34_VolatileDifferenceOnly ==
    /\ last_compute.called
    /\ "a" \in DOMAIN last_compute.old_nodes
    /\ "a" \in DOMAIN last_compute.stored_nodes
    /\ last_compute.old_nodes["a"].properties = PropNameDeg
    /\ last_compute.stored_nodes["a"].properties
          = [PropNameDeg EXCEPT !["degree_centrality"] = 6]
    /\ last_compute.delta.nodes_updated = {}


\* the history holds at most 100 deltas, in ascending sequence order, with
\* the sequence numbers of the last calls
HistoryIsBounded ==
    LET h == delta_history
        n == Len(returned_seqs)
    IN  /\ Len(h) <= 100
        /\ Len(h) = IF n < 100 THEN n ELSE 100
        /\ \A i \in DOMAIN h : h[i].sequence = returned_seqs[n - Len(h) + i]
        /\ \A i \in DOMAIN h : \A j \in DOMAIN h :
              i < j => h[i].sequence < h[j].sequence

\* a call leaves in the history the delta it computed, as the newest, after
\* the newest deltas the history held before
CallKeepsNewest ==
    LET h == delta_history
        hn == delta_history'
    IN  /\ hn # <<>>
        /\ hn[Len(hn)] = last_compute'.delta
        /\ Len(hn) - 1 <= Len(h)
        /\ \A i \in 1..(Len(hn) - 1) : hn[i] = h[Len(h) - (Len(hn) - 1) + i]

\* C35: after any sequence of compute_delta calls the history holds at most
\* 100 deltas, in ascending sequence order, and they are the most recently
\* computed ones: every call appends its delta and keeps the newest before it.
C35_HistoryHoldsNewestHundred ==
    /\ []HistoryIsBounded
    /\ [][CallKeepsNewest]_trackerVars

\* more than 100 calls were made and the first deltas have left the history
C35_HistoryWasTrimmed ==
    /\ Len(returned_seqs) > 100
    /\ Len(delta_history) = 100
    /\ delta_history[1].sequence = Len(returned_seqs) - 99


\* C36: right after cleanup(max_age), every key of the access-count map was
\* last incremented at most max_age before the cleanup.
C36_CleanupRemovesOldCounts ==
    ac_last.op = "cleanup" =>
        \A key \in DOMAIN ac_counts :
            ac_last.now - ac_accessed[key] <= ac_last.max_age


C38_EdgeIndicesMatchNodeIdx ==
    \A nodes_batch \in get_nodes_as_arrow(nodes) :
    \A edges_batch \in get_edges_as_arrow(nodes, edges) :
        \A k \in DOMAIN edges_batch : \A i \in DOMAIN nodes_batch :
            /\ nodes_batch[i].id = edges_batch[k].source
                  => edges_batch[k].sourceidx = nodes_batch[i].idx
            /\ nodes_batch[i].id = edges_batch[k].target
                  => edges_batch[k].targetidx = nodes_batch[i].idx

\* C39: a columnar GET for a kind is answered from the Arrow cache (304, or
\* 200 with X-Cache-Hit: true) only if the cached bytes of that kind were
\* produced less than ttl_seconds ago; a refresh of the other kind does not
\* extend the life of the bytes of this kind.
C39_CacheAnswersAreYoungerThanTtl ==
    col_last.cache_hit => col_last.age < TtlSeconds

\* the callers whose computation for key k is registered under mutex m and
\* has not stored its result yet
RunningComputations(k, m) ==
    {c \in Callers : /\ pc[c] \in {"compute", "computing"}
                     /\ ckey[c] = k
                     /\ cmutex[c] = m}

\* a step that removes the in-flight entry of key k
EntryRemoved(k) == inflight[k] # NoneV /\ inflight'[k] = NoneV

\* C40: the delayed cleanup of a completed computation for key k removes
\* only the in-flight entry that computation registered: it never removes
\* the entry of another computation for k that is still running.
C40_CleanupRemovesOwnEntryOnly ==
    [][\A k \in Keys :
          EntryRemoved(k) => RunningComputations(k, inflight[k][1]) = {}]_vars


====
